---- MODULE Spec2Model ----
(***************************************************************************)
(* Binary patch engine of RTXLauncher (rtxlauncher-core/src/patching.rs):  *)
(* the masked pattern matcher (findmask), the patch resolver               *)
(* (apply_patchsets_to_file) and the patch session                         *)
(* (apply_patches_from_repo / patch_file).                                 *)
(*                                                                         *)
(* Rust strings are sequences of one-character strings, byte buffers are   *)
(* sequences of numbers 0..255, and positions are 0-based as in the code   *)
(* (TLA+ sequences are 1-based: buffer index p is element p + 1).          *)
(***************************************************************************)
EXTENDS Integers, Sequences, FiniteSets, TLC

VARIABLES
    \* one use of the matcher: its arguments, the calls made and the last result
    m_data, m_mask, m_start, m_pc, m_res, m_hits

VARIABLES
    \* one call of apply_patchsets_to_file: the original bytes, the output
    \* buffer, the warnings, the number of PatchSets gone through, where the
    \* call stands, and the last iteration (its PatchSet, its outcome, the
    \* output buffer it started from)
    r_orig, r_out, r_warnings, r_n, r_status, r_set, r_last, r_before

VARIABLES
    \* one patch session (apply_patches_from_repo): where it stands, the
    \* install (64-bit marker, detected Steam install, files), the script
    \* fetched, the effective table, the key order and loop index, the
    \* locals warnings, files_patched and patched_files, the percentages
    \* reported, the deploy loop index and the report written
    s_pc, s_is64, s_steam, s_fs, s_script, s_map, s_keys, s_i,
    s_warnings, s_files_patched, s_patched_files, s_progress, s_d, s_report,
    \* the fetch attempts made and their outcomes, the paths patch_file has
    \* read, and the script text where the script is given as text
    s_fetch, s_reads, s_text

VARIABLES
    \* one call of parse_patches_from_python: how the script text was written
    \* and the text itself, where the call stands, the text without
    \* comments, the two table literals located, and the result
    p_given, p_text, p_pc, p_stripped, p_dicts, p_res

mvars == <<m_data, m_mask, m_start, m_pc, m_res, m_hits>>
rvars == <<r_orig, r_out, r_warnings, r_n, r_status, r_set, r_last, r_before>>
svars == <<s_pc, s_is64, s_steam, s_fs, s_script, s_map, s_keys, s_i,
           s_warnings, s_files_patched, s_patched_files, s_progress, s_d,
           s_report, s_fetch, s_reads, s_text>>
pvars == <<p_given, p_text, p_pc, p_stripped, p_dicts, p_res>>
vars == <<mvars, rvars, svars, pvars>>

(***************************************************************************)
(* Bounds of the explored inputs.                                          *)
(***************************************************************************)
\* longest buffer handed to the matcher
MaxDataLen == 3
\* longest mask, in units (hex pairs and ?? tokens), handed to the matcher
MaxUnits == 3
\* most alternatives of a PatchSet handed to the resolver
MaxAlts == 2
\* most PatchSets of one resolver call
MaxSets == 1
\* most keys of a table of the script
MaxKeys == 2
\* entries of a table literal written out for the parser
MaxEntries == 2

(***************************************************************************)
(* Strings and hexadecimal text.                                           *)
(***************************************************************************)
Min(S) == CHOOSE x \in S : \A y \in S : x <= y

\* every sequence over S of length lo..hi
SeqsOf(S, lo, hi) == UNION {[1..n -> S] : n \in lo..hi}

RECURSIVE Concat(_)
\* the concatenation of a sequence of sequences
Concat(ss) == IF ss = <<>> THEN <<>> ELSE Head(ss) \o Concat(Tail(ss))

\* value of one hexadecimal digit, -1 for any other character
HexVal(c) ==
    CASE c = "0" -> 0  [] c = "1" -> 1  [] c = "2" -> 2  [] c = "3" -> 3
      [] c = "4" -> 4  [] c = "5" -> 5  [] c = "6" -> 6  [] c = "7" -> 7
      [] c = "8" -> 8  [] c = "9" -> 9
      [] c \in {"A", "a"} -> 10  [] c \in {"B", "b"} -> 11
      [] c \in {"C", "c"} -> 12  [] c \in {"D", "d"} -> 13
      [] c \in {"E", "e"} -> 14  [] c \in {"F", "f"} -> 15
      [] OTHER -> -1

\* hex::decode: an odd length or a non-hex character is an error
HexDecode(s) ==
    IF Len(s) % 2 = 1 \/ \E i \in 1..Len(s) : HexVal(s[i]) < 0
    THEN [ok |-> FALSE, bytes |-> <<>>]
    ELSE [ok |-> TRUE,
          bytes |-> [i \in 1..(Len(s) \div 2) |->
                        16 * HexVal(s[2 * i - 1]) + HexVal(s[2 * i])]]

UpperHexDigit(d) ==
    <<"0", "1", "2", "3", "4", "5", "6", "7",
      "8", "9", "A", "B", "C", "D", "E", "F">>[d + 1]

RECURSIVE UpperHex(_)
\* format!("{:X}", n): upper-case hexadecimal without leading zeros
UpperHex(n) ==
    IF n < 16 THEN <<UpperHexDigit(n)>>
    ELSE UpperHex(n \div 16) \o <<UpperHexDigit(n % 16)>>

RECURSIVE Decimal(_)
\* format!("{}", n) of an unsigned number
Decimal(n) ==
    IF n < 10 THEN <<UpperHexDigit(n)>>
    ELSE Decimal(n \div 10) \o <<UpperHexDigit(n % 10)>>

\* str::contains("??")
ContainsWild(s) == \E i \in 1..(Len(s) - 1) : s[i] = "?" /\ s[i + 1] = "?"

RECURSIVE SplitWild(_)
\* str::split("??"): the pieces between non-overlapping occurrences of ??,
\* found left to right
SplitWild(s) ==
    IF ~ContainsWild(s) THEN <<s>>
    ELSE LET i == Min({j \in 1..(Len(s) - 1) : s[j] = "?" /\ s[j + 1] = "?"})
         IN  <<SubSeq(s, 1, i - 1)>> \o SplitWild(SubSeq(s, i + 2, Len(s)))

(***************************************************************************)
(* Option<usize> results; a panic of the call is a third outcome.          *)
(***************************************************************************)
Some(p) == [kind |-> "Some", pos |-> p]
None == [kind |-> "None", pos |-> 0]
Panic == [kind |-> "Panic", pos |-> 0]

\* data[a..b] with 0-based a, exclusive b
Slice(data, a, b) == SubSeq(data, a + 1, b)

\* twoway::find_bytes(text, pattern): the first occurrence, 0 for an empty
\* pattern
FindBytes(text, pattern) ==
    LET n == Len(pattern)
        hits == {p \in 0..(Len(text) - n) : Slice(text, p, p + n) = pattern}
    IN  IF n = 0 THEN Some(0)
        ELSE IF hits = {} THEN None
        ELSE Some(Min(hits))

(***************************************************************************)
(* findmask                                                                *)
(***************************************************************************)
RECURSIVE VerifyParts_NoWildcardByte(_, _, _, _)
\* VerifyParts with the byte of the wildcard not skipped after a part
VerifyParts_NoWildcardByte(data, parts, k, checkpos) ==
    IF k > Len(parts) THEN "good"
    ELSE IF parts[k] /= <<>> /\ ~HexDecode(parts[k]).ok THEN "none"
    ELSE IF parts[k] /= <<>>
            /\ (checkpos + Len(HexDecode(parts[k]).bytes) > Len(data)
                \/ Slice(data, checkpos,
                         checkpos + Len(HexDecode(parts[k]).bytes))
                       /= HexDecode(parts[k]).bytes)
    THEN "bad"
    ELSE VerifyParts_NoWildcardByte(data, parts, k + 1,
                                    checkpos + (Len(parts[k]) \div 2))

RECURSIVE VerifyParts(_, _, _, _)
\* the `for part in &parts` loop from part k on: "good", "bad" (good =
\* false; break) or "none" (a part that is no hex: the function returns None)
VerifyParts(data, parts, k, checkpos) ==
    IF k > Len(parts) THEN "good"
    ELSE LET part == parts[k]
             b == HexDecode(part)
             n == Len(b.bytes)
         IN  IF part /= <<>> /\ ~b.ok THEN "none"
             ELSE IF part /= <<>>
                     /\ (checkpos + n > Len(data)
                         \/ Slice(data, checkpos, checkpos + n) /= b.bytes)
             THEN "bad"
             ELSE VerifyParts(data, parts, k + 1,
                              checkpos + (Len(part) \div 2) + 1)

RECURSIVE FindmaskLoop(_, _, _)
\* the `loop` of the wildcard branch; &data[start..] panics when start is
\* past the end of the buffer
FindmaskLoop(data, parts, start) ==
    LET anchor == HexDecode(parts[1]) IN
    IF ~anchor.ok THEN None
    ELSE IF start > Len(data) THEN Panic
    ELSE LET found == FindBytes(Slice(data, start, Len(data)), anchor.bytes) IN
         IF found.kind = "None" THEN None
         ELSE LET findpos == start + found.pos
                  v == VerifyParts(data, parts, 1, findpos)
              IN  IF v = "none" THEN None
                  ELSE IF v = "good" THEN Some(findpos)
                  ELSE FindmaskLoop(data, parts, findpos + 1)

\* findmask with the literal search's index taken relative to the slice
findmask_RelativeIndex(data, hex_mask, start) ==
    IF ~ContainsWild(hex_mask)
    THEN IF ~HexDecode(hex_mask).ok THEN None
         ELSE IF start > Len(data) THEN Panic
         ELSE FindBytes(Slice(data, start, Len(data)), HexDecode(hex_mask).bytes)
    ELSE FindmaskLoop(data, SplitWild(hex_mask), start)

findmask(data, hex_mask, start) ==
    IF ~ContainsWild(hex_mask)
    THEN LET needle == HexDecode(hex_mask) IN
         IF ~needle.ok THEN None
         ELSE IF start > Len(data) THEN Panic
         ELSE LET found == FindBytes(Slice(data, start, Len(data)), needle.bytes)
              IN  IF found.kind = "None" THEN None ELSE Some(start + found.pos)
    ELSE FindmaskLoop(data, SplitWild(hex_mask), start)

(***************************************************************************)
(* apply_patchsets_to_file                                                 *)
(*                                                                         *)
(* A PatternSpec is [hex_mask, offset, override_hex], a PatchSet is        *)
(* [patterns, default_replacement]; an Option<String> is [some, str].      *)
(* A diagnostic is the sequence of the fragments format! puts together.    *)
(***************************************************************************)
NoStr == [some |-> FALSE, str |-> <<>>]
SomeStr(s) == [some |-> TRUE, str |-> s]

RECURSIVE ChooseFrom(_, _, _)
\* the loop over set.patterns from alternative k on: the first alternative
\* with a first match and no second match from first + 1
ChooseFrom(orig, patterns, k) ==
    IF k > Len(patterns) THEN [kind |-> "none", idx |-> 0, base |-> 0]
    ELSE LET p1 == findmask(orig, patterns[k].hex_mask, 0)
             p2 == IF p1.kind = "Some"
                   THEN findmask(orig, patterns[k].hex_mask, p1.pos + 1)
                   ELSE p1
         IN  IF p1.kind = "Panic" \/ p2.kind = "Panic"
             THEN [kind |-> "panic", idx |-> k, base |-> 0]
             ELSE IF p1.kind = "Some" /\ p2.kind = "None"
             THEN [kind |-> "chosen", idx |-> k, base |-> p1.pos]
             ELSE ChooseFrom(orig, patterns, k + 1)

\* WriteOffset with the magnitude of a negative offset added
WriteOffset_Magnitude(base, offset) ==
    IF offset >= 0 THEN base + offset ELSE base + (-offset)

\* the write offset of a pattern matched at base (isize and usize taken as
\* unbounded: the explored offsets are far from 2^63)
WriteOffset(base, offset) ==
    IF offset >= 0 THEN base + offset
    ELSE IF -offset > base THEN 0 ELSE base - (-offset)

\* a copy that also changes the byte after the range
CopyInto_OneMore(out, off, repl) ==
    [i \in 1..Len(out) |->
        IF off < i /\ i <= off + Len(repl) THEN repl[i - off]
        ELSE IF i = off + Len(repl) + 1 THEN 255 - out[i]
        ELSE out[i]]

\* out[off..off + repl.len()].copy_from_slice(&repl)
CopyInto(out, off, repl) ==
    [i \in 1..Len(out) |->
        IF off < i /\ i <= off + Len(repl) THEN repl[i - off] ELSE out[i]]

RECURSIVE LocsOf(_, _, _)
\* while let Some(p) = findmask(orig, mask, start): the locations of one
\* alternative
LocsOf(orig, hex_mask, start) ==
    LET r == findmask(orig, hex_mask, start) IN
    IF r.kind = "Panic" THEN [panic |-> TRUE, locs |-> <<>>]
    ELSE IF r.kind = "None" THEN [panic |-> FALSE, locs |-> <<>>]
    ELSE LET rest == LocsOf(orig, hex_mask, r.pos + 1) IN
         [panic |-> rest.panic,
          locs |-> <<hex_mask \o <<"@0x">> \o UpperHex(r.pos)>> \o rest.locs]

RECURSIVE AllLocs(_, _, _)
\* the locations of every alternative from alternative k on
AllLocs(orig, patterns, k) ==
    IF k > Len(patterns) THEN [panic |-> FALSE, locs |-> <<>>]
    ELSE LET here == LocsOf(orig, patterns[k].hex_mask, 0) IN
         IF here.panic THEN here
         ELSE LET rest == AllLocs(orig, patterns, k + 1) IN
              [panic |-> rest.panic, locs |-> here.locs \o rest.locs]

RECURSIVE Join(_, _)
\* locs.join(sep)
Join(ss, sep) ==
    IF ss = <<>> THEN <<>>
    ELSE IF Len(ss) = 1 THEN ss[1]
    ELSE ss[1] \o <<sep>> \o Join(Tail(ss), sep)

\* what one iteration of `for set in sets` leaves: how it ended ("ok" or
\* "panic"), the output buffer, the diagnostics pushed, and the locals chosen
\* (0: none), base, off and repl
Outcome(status, out, pushed, chosen, base, off, repl, wrote) ==
    [status |-> status, out |-> out, pushed |-> pushed, chosen |-> chosen,
     base |-> base, off |-> off, repl |-> repl, wrote |-> wrote]

\* ReplHex with the default replacement taking precedence
ReplHex_DefaultFirst(pat, set) ==
    IF set.default_replacement.some THEN set.default_replacement
    ELSE pat.override_hex

\* pat.override_hex.as_ref().or(set.default_replacement.as_ref())
ReplHex(pat, set) ==
    IF pat.override_hex.some THEN pat.override_hex ELSE set.default_replacement

\* WriteAt refusing a write that ends exactly at the end of the buffer
WriteAt_OffByOne(out, pat, idx, base, off, repl) ==
    IF off + Len(repl) < Len(out)
    THEN Outcome("ok", CopyInto(out, off, repl),
                 << <<"Applied patch at 0x">> \o UpperHex(off)
                    \o <<", len ">> \o Decimal(Len(repl)) >>,
                 idx, base, off, repl, TRUE)
    ELSE Outcome("ok", out,
                 << <<"Write out of range for pattern ">> \o pat.hex_mask >>,
                 idx, base, off, repl, FALSE)

\* the write of the decoded replacement at off, or the out-of-range warning
WriteAt(out, pat, idx, base, off, repl) ==
    IF off + Len(repl) <= Len(out)
    THEN Outcome("ok", CopyInto(out, off, repl),
                 << <<"Applied patch at 0x">> \o UpperHex(off)
                    \o <<", len ">> \o Decimal(Len(repl)) >>,
                 idx, base, off, repl, TRUE)
    ELSE Outcome("ok", out,
                 << <<"Write out of range for pattern ">> \o pat.hex_mask >>,
                 idx, base, off, repl, FALSE)

\* the branch `if let Some((base, pat)) = chosen`
ApplyChosen(out, set, idx, base) ==
    IF ~ReplHex(set.patterns[idx], set).some
       \/ ~HexDecode(ReplHex(set.patterns[idx], set).str).ok
    THEN Outcome("ok", out, <<>>, idx, base, 0, <<>>, FALSE)
    ELSE WriteAt(out, set.patterns[idx], idx, base,
                 WriteOffset(base, set.patterns[idx].offset),
                 HexDecode(ReplHex(set.patterns[idx], set).str).bytes)

\* the else branch, given the candidate locations of every alternative
Diagnose(out, l) ==
    IF l.panic THEN Outcome("panic", out, <<>>, 0, 0, 0, <<>>, FALSE)
    ELSE IF l.locs /= <<>>
    THEN Outcome("ok", out,
                 << <<"Ambiguous or conflicting pattern(s): ">>
                    \o Join(l.locs, ", ") >>,
                 0, 0, 0, <<>>, FALSE)
    ELSE Outcome("ok", out, << <<"Failed to locate pattern">> >>,
                 0, 0, 0, <<>>, FALSE)

ResolveWith(orig, out, set, c) ==
    IF c.kind = "panic" THEN Outcome("panic", out, <<>>, 0, 0, 0, <<>>, FALSE)
    ELSE IF c.kind = "chosen" THEN ApplyChosen(out, set, c.idx, c.base)
    ELSE Diagnose(out, AllLocs(orig, set.patterns, 1))

\* an iteration that searches the output buffer
ResolveSet_MatchOutput(orig, out, set) ==
    ResolveWith(out, out, set, ChooseFrom(out, set.patterns, 1))

\* one iteration of `for set in sets`
ResolveSet(orig, out, set) ==
    ResolveWith(orig, out, set, ChooseFrom(orig, set.patterns, 1))

RECURSIVE ApplyPatchsets(_, _, _, _)
\* apply_patchsets_to_file(orig, out, sets, warnings): the whole loop
ApplyPatchsets(orig, out, sets, warnings) ==
    IF sets = <<>> THEN [status |-> "ok", out |-> out, warnings |-> warnings]
    ELSE LET r == ResolveSet(orig, out, Head(sets)) IN
         IF r.status = "panic"
         THEN [status |-> "panic", out |-> out, warnings |-> warnings]
         ELSE ApplyPatchsets(orig, r.out, Tail(sets), warnings \o r.pushed)

(***************************************************************************)
(* The patch session: apply_patches_from_repo, patch_file and              *)
(* write_patched_file.                                                     *)
(*                                                                         *)
(* A path is <<root, subdirectory, relative path>> with root "steam" (the  *)
(* detected vanilla install) or "rtx" (rtx_root); the staging area is the  *)
(* subdirectory "patched" of rtx_root.  A file is [present, bytes].        *)
(***************************************************************************)
Absent == [present |-> FALSE, bytes |-> <<>>]
File(b) == [present |-> TRUE, bytes |-> b]

\* str::starts_with, str::ends_with, str::contains
StartsWith(s, pre) == Len(s) >= Len(pre) /\ SubSeq(s, 1, Len(pre)) = pre
EndsWith(s, suf) ==
    Len(s) >= Len(suf) /\ SubSeq(s, Len(s) - Len(suf) + 1, Len(s)) = suf
Contains(s, t) ==
    \E i \in 0..(Len(s) - Len(t)) : SubSeq(s, i + 1, i + Len(t)) = t

RECURSIVE TrimStartMatches(_, _)
\* str::trim_start_matches: the prefix removed as often as it occurs
TrimStartMatches(s, pre) ==
    IF pre /= <<>> /\ StartsWith(s, pre)
    THEN TrimStartMatches(SubSeq(s, Len(pre) + 1, Len(s)), pre)
    ELSE s

Str_bin == <<"b", "i", "n", "/">>
Str_win64 == <<"/", "w", "i", "n", "6", "4", "/">>
Str_dll == <<".", "d", "l", "l">>
Str_bin_win64 == <<"b", "i", "n", "/", "w", "i", "n", "6", "4", "/">>
Str_bin_client_dll ==
    <<"b", "i", "n", "/", "c", "l", "i", "e", "n", "t", ".", "d", "l", "l">>

\* the key after the rewrite of 32-bit DLL keys on a 64-bit install
EffectiveRel(rel, is64) ==
    IF is64 /\ StartsWith(rel, Str_bin) /\ ~Contains(rel, Str_win64)
       /\ EndsWith(rel, Str_dll)
    THEN Str_bin_win64 \o TrimStartMatches(rel, Str_bin)
    ELSE rel

\* crate::steam::detect_gmod_install_folder().unwrap_or(rtx_root)
VanillaRoot(steam) == IF steam THEN "steam" ELSE "rtx"

\* a percentage proportional to the keys that remain
KeyPercent_Remaining(i, total) ==
    Min({12 + (((total - i) * 80) \div total), 90})

\* the percentage of loop index i of total keys (the f32 product truncated)
KeyPercent(i, total) ==
    IF 12 + ((i * 80) \div total) < 90 THEN 12 + ((i * 80) \div total) ELSE 90

\* patch_file that writes the output over the live file as well
PatchFileWith_Deploying(fs, data, rel, applied, io, warnings, files_patched) ==
    IF io = "read_err"
    THEN [status |-> "failed", fs |-> fs, warnings |-> warnings,
          files_patched |-> files_patched]
    ELSE IF applied.status = "panic"
    THEN [status |-> "panic", fs |-> fs, warnings |-> warnings,
          files_patched |-> files_patched]
    ELSE IF io = "write_err"
    THEN [status |-> "failed", fs |-> fs, warnings |-> applied.warnings,
          files_patched |-> files_patched]
    ELSE [status |-> "ok",
          fs |-> [fs EXCEPT ![<<"rtx", "patched", rel>>] = File(applied.out),
                            ![<<"rtx", "", rel>>] = File(applied.out)],
          warnings |-> applied.warnings,
          files_patched |-> files_patched + 1]

\* patch_file that stages the file without counting it
PatchFileWith_NoCount(fs, data, rel, applied, io, warnings, files_patched) ==
    IF io = "read_err"
    THEN [status |-> "failed", fs |-> fs, warnings |-> warnings,
          files_patched |-> files_patched]
    ELSE IF applied.status = "panic"
    THEN [status |-> "panic", fs |-> fs, warnings |-> warnings,
          files_patched |-> files_patched]
    ELSE IF io = "write_err"
    THEN [status |-> "failed", fs |-> fs, warnings |-> applied.warnings,
          files_patched |-> files_patched]
    ELSE [status |-> "ok",
          fs |-> [fs EXCEPT ![<<"rtx", "patched", rel>>] = File(applied.out)],
          warnings |-> applied.warnings,
          files_patched |-> files_patched]

\* patch_file: read the source, apply the PatchSets to a copy, stage the
\* result, count the file; io is what the file system does ("ok", a failed
\* read or a failed staging write)
PatchFileWith(fs, data, rel, applied, io, warnings, files_patched) ==
    IF io = "read_err"
    THEN [status |-> "failed", fs |-> fs, warnings |-> warnings,
          files_patched |-> files_patched]
    ELSE IF applied.status = "panic"
    THEN [status |-> "panic", fs |-> fs, warnings |-> warnings,
          files_patched |-> files_patched]
    ELSE IF io = "write_err"
    THEN [status |-> "failed", fs |-> fs, warnings |-> applied.warnings,
          files_patched |-> files_patched]
    ELSE [status |-> "ok",
          fs |-> [fs EXCEPT ![<<"rtx", "patched", rel>>] = File(applied.out)],
          warnings |-> applied.warnings,
          files_patched |-> files_patched + 1]

PatchFile(fs, path, rel, sets, io, warnings, files_patched) ==
    PatchFileWith(fs, fs[path].bytes, rel,
                  ApplyPatchsets(fs[path].bytes, fs[path].bytes, sets, warnings),
                  io, warnings, files_patched)

\* the subdirectories of rtx_root that read_dir lists
SubDirs == {"patched", "gmod"}

\* the text of patch-report.txt, line by line
ReportText(files_patched, patched_files, warnings) ==
    << <<"Patched ">> \o Decimal(files_patched) \o <<" file(s)">> >>
    \o [i \in 1..Len(patched_files) |-> <<"Patched: ">> \o patched_files[i]]
    \o warnings

\* no request sent yet; otherwise the outcome of the request to the primary
\* URL and of the request to the fallback URL ("none": not sent)
NoFetch == [primary |-> "none", fallback |-> "none"]

\* the parser before any call
IdleParser ==
    /\ p_given = <<>> /\ p_text = <<>> /\ p_pc = "idle" /\ p_stripped = <<>>
    /\ p_dicts = <<>>
    /\ p_res = [kind |-> "idle", map32 |-> <<>>, map64 |-> <<>>]

\* the session before any run
IdleSession ==
    /\ s_pc = "idle" /\ s_is64 = FALSE /\ s_steam = FALSE
    /\ s_fs = <<>> /\ s_script = <<>> /\ s_map = <<>> /\ s_keys = <<>>
    /\ s_i = 0 /\ s_warnings = <<>> /\ s_files_patched = 0
    /\ s_patched_files = <<>> /\ s_progress = <<>> /\ s_d = 0
    /\ s_report = <<>>
    /\ s_fetch = NoFetch
    /\ s_reads = {}
    /\ s_text = NoStr

\* the resolver before any call
IdleResolver ==
    /\ r_orig = <<>> /\ r_out = <<>> /\ r_warnings = <<>> /\ r_n = 0
    /\ r_status = "idle"
    /\ r_set = [patterns |-> <<>>, default_replacement |-> NoStr]
    /\ r_last = Outcome("ok", <<>>, <<>>, 0, 0, 0, <<>>, FALSE)
    /\ r_before = <<>>

(***************************************************************************)
(* The matcher on its own: one search from any start inside the buffer,    *)
(* then, as the resolver does, further searches from previous match + 1.   *)
(***************************************************************************)
DataBytes == {170, 204}
MaskUnits == {<<"A", "A">>, <<"C", "C">>, <<"?", "?">>}
\* masks that are not sequences of hex pairs and ?? tokens
MalformedMasks ==
    {<<>>, <<"A">>, <<"?">>, <<"A", "?", "?", "A">>, <<"G", "G">>,
     <<"?", "?", "?">>, <<"A", "A", "?", "?", "Z", "Z">>}
\* "AA??CC" against AA 00 CC AA FF CC
ExampleMask == <<"A", "A", "?", "?", "C", "C">>
ExampleData == <<170, 0, 204, 170, 255, 204>>

MatcherInputs ==
    (SeqsOf(DataBytes, 0, MaxDataLen)
        \X ({Concat(us) : us \in SeqsOf(MaskUnits, 1, MaxUnits)}
                \cup MalformedMasks))
    \cup {<<ExampleData, ExampleMask>>}

\* the matcher before any use
IdleMatcher ==
    /\ m_data = <<>> /\ m_mask = <<>> /\ m_start = 0
    /\ m_pc = "idle" /\ m_res = None /\ m_hits = <<>>

InitMatch ==
    /\ IdleResolver
    /\ IdleSession
    /\ IdleParser
    /\ \E in \in MatcherInputs :
          /\ m_data = in[1]
          /\ m_mask = in[2]
          /\ m_start \in 0..Len(in[1])
    /\ m_pc = "ready"
    /\ m_res = None
    /\ m_hits = <<>>

\* findmask(data, mask, start) for a start inside the buffer
Search ==
    /\ m_pc = "ready"
    /\ m_res' = findmask(m_data, m_mask, m_start)
    /\ m_hits' = IF m_res'.kind = "Some" THEN <<m_res'.pos>> ELSE <<>>
    /\ m_pc' = "searched"
    /\ UNCHANGED <<m_data, m_mask, m_start, rvars, svars, pvars>>

\* the follow-up search of the resolver: findmask(data, mask, p + 1)
SearchNext ==
    /\ m_pc = "searched"
    /\ m_res.kind = "Some"
    /\ m_start' = m_res.pos + 1
    /\ m_res' = findmask(m_data, m_mask, m_start')
    /\ m_hits' = IF m_res'.kind = "Some" THEN Append(m_hits, m_res'.pos)
                                          ELSE m_hits
    /\ UNCHANGED <<m_data, m_mask, m_pc, rvars, svars, pvars>>

NextMatch == Search \/ SearchNext

SpecMatch == InitMatch /\ [][NextMatch]_vars

(***************************************************************************)
(* Properties of the matcher.                                              *)
(***************************************************************************)
\* a non-empty sequence of units, each two hex digits or ??
WellFormedMask(mask) ==
    /\ Len(mask) > 0
    /\ Len(mask) % 2 = 0
    /\ \A j \in 1..(Len(mask) \div 2) :
          \/ mask[2 * j - 1] = "?" /\ mask[2 * j] = "?"
          \/ HexVal(mask[2 * j - 1]) >= 0 /\ HexVal(mask[2 * j]) >= 0

\* the units of a well-formed mask: a byte value, or -1 for ??
MaskUnitsOf(mask) ==
    [j \in 1..(Len(mask) \div 2) |->
        IF mask[2 * j - 1] = "?" THEN -1
        ELSE 16 * HexVal(mask[2 * j - 1]) + HexVal(mask[2 * j])]

\* every literal unit of the mask equals the buffer byte it falls on when the
\* mask is laid over the buffer at position p, one byte per unit
LiteralsMatchAt(data, mask, p) ==
    LET u == MaskUnitsOf(mask) IN
    \A j \in 1..Len(u) :
        u[j] >= 0 => (p + j <= Len(data) /\ data[p + j] = u[j])

\* the result the contract gives: the smallest such position from start on
FirstMatchFrom(data, mask, start) ==
    LET ps == {p \in start..Len(data) : LiteralsMatchAt(data, mask, p)}
    IN  IF ps = {} THEN None ELSE Some(Min(ps))

\* C2: for a mask without wildcard the matcher returns the smallest index
\* i >= start at which the decoded mask bytes equal buffer[i .. i + len), and
\* "not found" exactly when there is no such index
C2_LiteralSearchExact ==
    (m_pc = "searched" /\ WellFormedMask(m_mask) /\ ~ContainsWild(m_mask)
        /\ m_start <= Len(m_data))
    => LET needle == HexDecode(m_mask).bytes
           n == Len(needle)
           occ == {i \in m_start..(Len(m_data) - n) :
                      \A j \in 1..n : m_data[i + j] = needle[j]}
       IN  /\ occ = {} <=> m_res = None
           /\ occ /= {} => m_res = Some(Min(occ))

C2_Witness ==
    /\ m_pc = "searched" /\ WellFormedMask(m_mask) /\ ~ContainsWild(m_mask)
    /\ m_start = 1 /\ m_res = Some(2) /\ m_data[1] = m_data[3]

NonEmptyAnchor(mask) == Len(mask) >= 2 /\ mask[1] /= "?"

\* C3: for a mask with ?? tokens and a non-empty first segment the matcher
\* returns the smallest position P >= start at which every literal segment
\* equals the buffer, each wildcard standing for one byte; AA??CC against
\* AA 00 CC AA FF CC gives 0 from start 0 and 3 from start 1
C3_WildcardSearch ==
    /\ (m_pc = "searched" /\ WellFormedMask(m_mask) /\ ContainsWild(m_mask)
            /\ NonEmptyAnchor(m_mask))
       => m_res = FirstMatchFrom(m_data, m_mask, m_start)
    /\ (m_pc = "searched" /\ m_data = ExampleData /\ m_mask = ExampleMask)
       => /\ m_start = 0 => m_res = Some(0)
          /\ m_start = 1 => m_res = Some(3)

C3_Witness ==
    /\ m_pc = "searched" /\ m_data = ExampleData /\ m_mask = ExampleMask
    /\ m_hits = <<0, 3>> /\ m_start = 1

\* C4: for every well-formed mask, also one that begins with ?? or is all
\* wildcards, the matcher ends with a position or "not found" and never
\* fails, both from a start inside the buffer and in the enumeration from
\* previous match + 1
C4_MatcherNeverFails ==
    (m_pc = "searched" /\ WellFormedMask(m_mask)) => m_res.kind /= "Panic"

(***************************************************************************)
(* The resolver on its own: one call of apply_patchsets_to_file on a       *)
(* buffer, the PatchSets of the list met one by one.                       *)
(***************************************************************************)
Str_AA == <<"A", "A">>
Str_CC == <<"C", "C">>
Str_EE == <<"E", "E">>
Str_EEEE == <<"E", "E", "E", "E">>
Str_DDDD == <<"D", "D", "D", "D">>
Str_AAxxCC == <<"A", "A", "?", "?", "C", "C">>
Str_xxCC == <<"?", "?", "C", "C">>

Pat(mask, offset, override) ==
    [hex_mask |-> mask, offset |-> offset, override_hex |-> override]

\* a literal mask with a positive offset and no override, a literal mask
\* with a negative offset and an override, a mask with an inner wildcard and
\* a longer override, and a mask that begins with a wildcard
PatternPool ==
    {Pat(Str_AA, 1, NoStr), Pat(Str_CC, -2, SomeStr(Str_EE)),
     Pat(Str_AAxxCC, 0, SomeStr(Str_EEEE)), Pat(Str_xxCC, 0, NoStr)}

\* the offset examples: AA at position 10 of a 16-byte buffer, with offsets
\* 4, -4 and -20
OffsetExampleOrig == [i \in 1..16 |-> IF i = 11 THEN 170 ELSE 0]
OffsetExampleSets ==
    {[patterns |-> <<Pat(Str_AA, k, NoStr)>>,
      default_replacement |-> SomeStr(Str_EE)] : k \in {4, -4, -20}}

\* sets whose replacement is no hexadecimal string: a default of odd
\* length and an override with a character that is no hex digit
UndecodableSets ==
    {[patterns |-> <<Pat(Str_AA, 0, NoStr)>>,
      default_replacement |-> SomeStr(<<"E">>)],
     [patterns |-> <<Pat(Str_AA, 0, SomeStr(<<"G", "G">>))>>,
      default_replacement |-> SomeStr(Str_EE)]}

PatchSetPool ==
    {[patterns |-> ps, default_replacement |-> d] :
        ps \in SeqsOf(PatternPool, 0, MaxAlts), d \in {NoStr, SomeStr(Str_DDDD)}}
    \cup OffsetExampleSets
    \cup UndecodableSets

\* one PatchSet more after the list, for buffers that begin with AA and
\* hold CC twice: a write at offset 1 and a signature CC
FollowOrigs == {<<170, 204, 204>>}
FollowSets ==
    {[patterns |-> <<Pat(Str_AA, 1, NoStr)>>,
      default_replacement |-> SomeStr(Str_EE)],
     [patterns |-> <<Pat(Str_CC, 0, NoStr)>>,
      default_replacement |-> SomeStr(Str_EE)]}

\* the PatchSets the list may hold at index r_n
NextSets ==
    IF r_n < MaxSets THEN PatchSetPool
    ELSE IF r_n = MaxSets /\ r_orig \in FollowOrigs THEN FollowSets
    ELSE {}

InitResolve ==
    /\ IdleMatcher
    /\ IdleSession
    /\ IdleParser
    /\ r_orig \in SeqsOf(DataBytes, 0, MaxDataLen) \cup {OffsetExampleOrig}
    /\ r_out = r_orig
    /\ r_warnings = <<>>
    /\ r_n = 0
    /\ r_status = "running"
    /\ r_set = [patterns |-> <<>>, default_replacement |-> NoStr]
    /\ r_last = Outcome("ok", r_orig, <<>>, 0, 0, 0, <<>>, FALSE)
    /\ r_before = r_orig

\* one iteration of `for set in sets`
ResolveNext ==
    /\ r_status = "running"
    /\ \E set \in NextSets :
          LET res == ResolveSet(r_orig, r_out, set) IN
          /\ r_set' = set
          /\ r_last' = res
          /\ r_before' = r_out
          /\ r_out' = res.out
          /\ r_warnings' = r_warnings \o res.pushed
          /\ r_status' = IF res.status = "panic" THEN "panic" ELSE "running"
    /\ r_n' = r_n + 1
    /\ UNCHANGED <<r_orig, mvars, svars, pvars>>

\* the end of the list: the call returns
ResolveReturn ==
    /\ r_status = "running"
    /\ r_status' = "returned"
    /\ UNCHANGED <<r_orig, r_out, r_warnings, r_n, r_set, r_last, r_before,
                   mvars, svars, pvars>>

NextResolve == ResolveNext \/ ResolveReturn

SpecResolve == InitResolve /\ [][NextResolve]_vars

(***************************************************************************)
(* parse_patches_from_python.  Text is a sequence of characters; positions *)
(* are 0-based as in the code.  A parse ends "ok", with an error ("err")   *)
(* or in a panic of a slice expression ("panic").                          *)
(***************************************************************************)
IsWhitespace(c) == c \in {" ", "\t", "\n", "\r"}

\* the text without the characters of drop at its two ends
TrimOf(s, drop) ==
    IF \A k \in 1..Len(s) : s[k] \in drop THEN <<>>
    ELSE SubSeq(s, Min({k \in 1..Len(s) : s[k] \notin drop}),
                Len(s) + 1 - Min({k \in 1..Len(s) : s[Len(s) + 1 - k] \notin drop}))

\* str::trim
Trim(s) == TrimOf(s, {" ", "\t", "\n", "\r"})

\* unquote: s.trim_matches('\'')
Unquote(s) == TrimOf(s, {"'"})

\* the first position from i on whose character is in stop, Len(chars) when
\* there is none
ScanTo(chars, i, stop) ==
    Min({k \in i..(Len(chars) - 1) : chars[k + 1] \in stop}
        \cup {IF i > Len(chars) THEN i ELSE Len(chars)})

\* while i < chars.len() && chars[i].is_whitespace() { i += 1; }
SkipWs(chars, i) ==
    Min({k \in i..(Len(chars) - 1) : ~IsWhitespace(chars[k + 1])}
        \cup {IF i > Len(chars) THEN i ELSE Len(chars)})

\* str::lines: the pieces between line feeds, without a final empty piece and
\* without a carriage return before the line feed
RECURSIVE Lines(_)
Lines(s) ==
    IF s = <<>> THEN <<>>
    ELSE IF ScanTo(s, 0, {"\n"}) = Len(s)
    THEN <<s>>
    ELSE << IF ScanTo(s, 0, {"\n"}) > 0 /\ s[ScanTo(s, 0, {"\n"})] = "\r"
            THEN SubSeq(s, 1, ScanTo(s, 0, {"\n"}) - 1)
            ELSE SubSeq(s, 1, ScanTo(s, 0, {"\n"})) >>
         \o Lines(SubSeq(s, ScanTo(s, 0, {"\n"}) + 2, Len(s)))

\* strip_comments: every line cut at its first '#', the lines joined by \n
StripComments(src) ==
    Join([k \in 1..Len(Lines(src)) |->
             SubSeq(Lines(src)[k], 1, ScanTo(Lines(src)[k], 0, {"#"}))],
         "\n")

\* str::find
StrFind(text, pat) == FindBytes(text, pat)

\* the depth counted from position i up to and with position k
DepthAt(chars, i, k, open, close) ==
    Cardinality({n \in i..k : chars[n + 1] = open})
    - Cardinality({n \in i..k : chars[n + 1] = close})

\* the end (exclusive) of the literal that opens at position i: the position
\* after the first close that brings the depth to 0, -1 when there is none
MatchEnd(chars, i, open, close) ==
    IF \E k \in i..(Len(chars) - 1) :
          chars[k + 1] = close /\ DepthAt(chars, i, k, open, close) = 0
    THEN 1 + Min({k \in i..(Len(chars) - 1) :
                    chars[k + 1] = close /\ DepthAt(chars, i, k, open, close) = 0})
    ELSE -1

Str_eq_brace == <<" ", "=", " ", "{">>
Str_eqbrace == <<"=", "{">>
Str_patches32 == <<"p", "a", "t", "c", "h", "e", "s", "3", "2">>
Str_patches_32 == <<"p", "a", "t", "c", "h", "e", "s", "_", "3", "2">>
Str_patches64 == <<"p", "a", "t", "c", "h", "e", "s", "6", "4">>
Str_patches_64 == <<"p", "a", "t", "c", "h", "e", "s", "_", "6", "4">>
Str_empty_dict == <<"{", "}">>

\* the position of the opening brace of the table called name: Some or None
DictStart(text, name) ==
    IF StrFind(text, name \o Str_eq_brace).kind = "Some"
    THEN Some(StrFind(text, name \o Str_eq_brace).pos + Len(name) + 3)
    ELSE IF StrFind(text, name \o Str_eqbrace).kind = "Some"
    THEN Some(StrFind(text, name \o Str_eqbrace).pos + Len(name) + 1)
    ELSE None

\* the closure find_dict: the table's literal from its opening brace to the
\* matching closing brace, or the error "not found" or "unmatched braces"
FindDictFrom(text, start) ==
    IF start.kind = "None" THEN [kind |-> "not found", src |-> <<>>]
    ELSE IF MatchEnd(text, start.pos, "{", "}") = -1
    THEN [kind |-> "unmatched braces", src |-> <<>>]
    ELSE [kind |-> "ok",
          src |-> Slice(text, start.pos, MatchEnd(text, start.pos, "{", "}"))]

find_dict(text, name) == FindDictFrom(text, DictStart(text, name))

\* a lookup that takes the first literal of the text for a table it does
\* not find
DictSource_AnyDict(text, name, alt) ==
    IF find_dict(text, name).kind = "ok" THEN find_dict(text, name).src
    ELSE IF find_dict(text, alt).kind = "ok" THEN find_dict(text, alt).src
    ELSE IF FindDictFrom(text, StrFind(text, <<"{">>)).kind = "ok"
    THEN FindDictFrom(text, StrFind(text, <<"{">>)).src
    ELSE Str_empty_dict

\* find_dict(name).or_else(|_| find_dict(alt)).unwrap_or("{}")
DictSource(text, name, alt) ==
    IF find_dict(text, name).kind = "ok" THEN find_dict(text, name).src
    ELSE IF find_dict(text, alt).kind = "ok" THEN find_dict(text, alt).src
    ELSE Str_empty_dict

\* results of the parsing functions
ParseOk(v) == [kind |-> "ok", val |-> v]
ParseErr == [kind |-> "err", val |-> <<>>]
ParsePanic == [kind |-> "panic", val |-> <<>>]

\* &s[1..s.len()-1], which panics for a string shorter than 2
Inner(s) == SubSeq(s, 2, Len(s) - 1)

\* the capture loops: the position after the close that matches the bracket
\* at i, the end of the text when nothing matches it
CaptureEnd(chars, i, open, close) ==
    IF MatchEnd(chars, i, open, close) = -1 THEN Len(chars)
    ELSE MatchEnd(chars, i, open, close)

\* while i < chars.len() && chars[i] != stop
\*     { if chars[i] == ',' { i += 1; break; } i += 1; }
AfterComma(chars, i, stop) ==
    IF ScanTo(chars, i, {stop, ","}) < Len(chars)
       /\ chars[ScanTo(chars, i, {stop, ","}) + 1] = ","
    THEN ScanTo(chars, i, {stop, ","}) + 1
    ELSE ScanTo(chars, i, {stop, ","})

\* the positions (1-based) of the delimiters of s that lie at depth 0, where
\* every [, ( and { before them adds 1 and every ], ) and } takes 1 away
SplitPoints(s, delim) ==
    {k \in 1..Len(s) :
        /\ s[k] = delim
        /\ Cardinality({n \in 1..(k - 1) : s[n] \in {"[", "(", "{"}})
           = Cardinality({n \in 1..(k - 1) : s[n] \in {"]", ")", "}"}})}

\* the trimmed pieces between the cuts (cuts in ascending order, from is the
\* position after the previous cut); a last piece that is blank is dropped
RECURSIVE SplitAt(_, _, _)
SplitAt(s, from, cuts) ==
    IF cuts = <<>>
    THEN IF Trim(SubSeq(s, from, Len(s))) /= <<>>
         THEN <<Trim(SubSeq(s, from, Len(s)))>> ELSE <<>>
    ELSE <<Trim(SubSeq(s, from, Head(cuts) - 1))>>
         \o SplitAt(s, Head(cuts) + 1, Tail(cuts))

RECURSIVE SortedCuts(_)
SortedCuts(S) ==
    IF S = {} THEN <<>> ELSE <<Min(S)>> \o SortedCuts(S \ {Min(S)})

split_top_level(s, delim) == SplitAt(s, 1, SortedCuts(SplitPoints(s, delim)))

Digits == {"0", "1", "2", "3", "4", "5", "6", "7", "8", "9"}

RECURSIVE DecimalValue(_)
DecimalValue(ds) ==
    IF ds = <<>> THEN 0
    ELSE 10 * DecimalValue(SubSeq(ds, 1, Len(ds) - 1)) + HexVal(ds[Len(ds)])

\* an offset read from the digits a text begins with
ParseOffset_Prefix(s) ==
    DecimalValue(SubSeq(s, 1, Min({Len(s)} \cup
                                  {k \in 0..(Len(s) - 1) : s[k + 1] \notin Digits})))

\* parts[1].trim().parse::<isize>().unwrap_or(0): an optional sign and at
\* least one decimal digit, 0 for every other text
ParseOffset(s) ==
    IF s /= <<>> /\ Head(s) \in {"+", "-"}
    THEN IF Len(s) >= 2 /\ \A k \in 2..Len(s) : s[k] \in Digits
         THEN IF Head(s) = "-" THEN 0 - DecimalValue(Tail(s))
              ELSE DecimalValue(Tail(s))
         ELSE 0
    ELSE IF s /= <<>> /\ \A k \in 1..Len(s) : s[k] \in Digits
    THEN DecimalValue(s)
    ELSE 0

\* the tuple read without its third field
TupleFromParts_NoOverride(parts) ==
    IF Len(parts) < 2 THEN ParseErr
    ELSE ParseOk(Pat(Unquote(Trim(parts[1])), ParseOffset(Trim(parts[2])), NoStr))

TupleFromParts(parts) ==
    IF Len(parts) < 2 THEN ParseErr
    ELSE ParseOk(Pat(Unquote(Trim(parts[1])), ParseOffset(Trim(parts[2])),
                     IF Len(parts) >= 3 THEN SomeStr(Unquote(Trim(parts[3])))
                     ELSE NoStr))

parse_tuple_pattern(src) ==
    IF Len(src) < 2 THEN ParsePanic
    ELSE TupleFromParts(split_top_level(Inner(src), ","))

RECURSIVE PatternsLoop(_, _, _)
PatternsTuple(chars, j, out, t, e) ==
    IF t.kind /= "ok" THEN t
    ELSE PatternsLoop(chars, AfterComma(chars, e, "("), Append(out, t.val))

PatternsAt(chars, j, out) ==
    IF j >= Len(chars) THEN ParseOk(out)
    ELSE IF chars[j + 1] /= "(" THEN ParseErr
    ELSE PatternsTuple(chars, j, out,
             parse_tuple_pattern(Slice(chars, j, CaptureEnd(chars, j, "(", ")"))),
             CaptureEnd(chars, j, "(", ")"))

PatternsLoop(chars, i, out) == PatternsAt(chars, SkipWs(chars, i), out)

parse_patterns_list(src) ==
    IF Len(src) < 2 THEN ParsePanic ELSE PatternsLoop(Inner(src), 0, <<>>)

\* the default replacement of an entry: its second part when that begins
\* with a quote
DefaultRepl(parts) ==
    IF Len(parts) >= 2 /\ StartsWith(Trim(parts[2]), <<"'">>)
    THEN SomeStr(Unquote(Trim(parts[2])))
    ELSE NoStr

EntryWith(patterns, default) ==
    IF patterns.kind /= "ok" THEN patterns
    ELSE ParseOk([patterns |-> patterns.val, default_replacement |-> default])

EntryFromTuple(pat, default) ==
    IF pat.kind /= "ok" THEN pat
    ELSE ParseOk([patterns |-> <<pat.val>>, default_replacement |-> default])

EntryFromParts(parts) ==
    IF parts = <<>> THEN ParseErr
    ELSE IF StartsWith(Trim(parts[1]), <<"[">>)
    THEN EntryWith(parse_patterns_list(Trim(parts[1])), DefaultRepl(parts))
    ELSE IF StartsWith(Trim(parts[1]), <<"(">>)
    THEN EntryFromTuple(parse_tuple_pattern(Trim(parts[1])), DefaultRepl(parts))
    ELSE ParseErr

parse_entry_list(entry_src) ==
    IF Len(entry_src) < 2 THEN ParsePanic
    ELSE EntryFromParts(split_top_level(Inner(entry_src), ","))

\* if i < chars.len() && chars[i] == ',' { i += 1; }
PastComma(chars, i) ==
    IF i < Len(chars) /\ chars[i + 1] = "," THEN i + 1 ELSE i

RECURSIVE SetsLoop(_, _, _)
SetsEntry(chars, out, r, e) ==
    IF r.kind /= "ok" THEN r
    ELSE SetsLoop(chars, PastComma(chars, e), Append(out, r.val))

\* an element that opens with [ is an entry; any other token is skipped up
\* to the next comma
SetsAt(chars, j, out) ==
    IF j >= Len(chars) THEN ParseOk(out)
    ELSE IF chars[j + 1] = "["
    THEN SetsEntry(chars, out,
             parse_entry_list(Slice(chars, j, CaptureEnd(chars, j, "[", "]"))),
             CaptureEnd(chars, j, "[", "]"))
    ELSE SetsLoop(chars, PastComma(chars, ScanTo(chars, j, {","})), out)

SetsLoop(chars, i, out) == SetsAt(chars, SkipWs(chars, i), out)

parse_patch_sets(list_src) ==
    IF Len(list_src) < 2 THEN ParsePanic ELSE SetsLoop(Inner(list_src), 0, <<>>)

\* map.insert(key, sets)
MapInsert(map, key, sets) ==
    [k \in DOMAIN map \cup {key} |-> IF k = key THEN sets ELSE map[k]]

\* skip spaces and one ':'
PastColon(chars, i) ==
    IF SkipWs(chars, i) < Len(chars) /\ chars[SkipWs(chars, i) + 1] = ":"
    THEN SkipWs(chars, i) + 1
    ELSE SkipWs(chars, i)

RECURSIVE DictLoop(_, _, _)
DictValue(chars, map, key, r, e) ==
    IF r.kind /= "ok" THEN r
    ELSE DictLoop(chars, AfterComma(chars, e, "'"), MapInsert(map, key, r.val))

\* v is the position at which the value list must open
DictEntry(chars, map, key, v) ==
    IF v >= Len(chars) \/ chars[v + 1] /= "[" THEN ParseErr
    ELSE DictValue(chars, map, key,
             parse_patch_sets(Slice(chars, v, CaptureEnd(chars, v, "[", "]"))),
             CaptureEnd(chars, v, "[", "]"))

\* j is the position of the first character that is no whitespace
DictAt(chars, j, map) ==
    IF j >= Len(chars) THEN ParseOk(map)
    ELSE IF chars[j + 1] = "}" THEN ParseOk(map)
    ELSE IF chars[j + 1] /= "'" THEN ParseErr
    ELSE DictEntry(chars, map,
             Slice(chars, j + 1, ScanTo(chars, j + 1, {"'"})),
             SkipWs(chars, PastColon(chars, ScanTo(chars, j + 1, {"'"}) + 1)))

DictLoop(chars, i, map) == DictAt(chars, SkipWs(chars, i), map)

\* the body without its outer braces, when it has both
DictSlice(trimmed) ==
    IF StartsWith(trimmed, <<"{">>) /\ EndsWith(trimmed, <<"}">>)
    THEN Inner(trimmed) ELSE trimmed

parse_dict(body) == DictLoop(DictSlice(Trim(body)), 0, <<>>)

\* Ok((parse_dict(d32)?, parse_dict(d64)?))
PatchesFrom(r32, r64) ==
    IF r32.kind /= "ok" THEN [kind |-> r32.kind, map32 |-> <<>>, map64 |-> <<>>]
    ELSE IF r64.kind /= "ok"
    THEN [kind |-> r64.kind, map32 |-> <<>>, map64 |-> <<>>]
    ELSE [kind |-> "ok", map32 |-> r32.val, map64 |-> r64.val]

PatchesOfText(text) ==
    PatchesFrom(parse_dict(DictSource(text, Str_patches32, Str_patches_32)),
                parse_dict(DictSource(text, Str_patches64, Str_patches_64)))

parse_patches_from_python(src) == PatchesOfText(StripComments(src))

(***************************************************************************)
(* The parser on its own: script texts written out from tables in several  *)
(* layouts, and table bodies that are malformed in a known way.            *)
(***************************************************************************)

\* a key that is not quoted: {a: [[('AA', 0)]]}
Raw_unquoted_key ==
    <<"{", "a", ":", " ", "[", "[", "(", "'", "A", "A", "'", ",", " ", "0",
      ")", "]", "]", "}">>

\* a key in double quotes: {"a": [[('AA', 0)]]}
Raw_double_quoted_key ==
    <<"{", "\"", "a", "\"", ":", " ", "[", "[", "(", "'", "A", "A", "'", ",",
      " ", "0", ")", "]", "]", "}">>

\* a key whose value is a tuple, not a list: {'a': ('AA', 0)}
Raw_value_tuple ==
    <<"{", "'", "a", "'", ":", " ", "(", "'", "A", "A", "'", ",", " ", "0",
      ")", "}">>

\* a key whose value is a number: {'a': 5}
Raw_value_number ==
    <<"{", "'", "a", "'", ":", " ", "5", "}">>

\* a value list whose elements are a tuple and a string, not entries: {'a': [('AA', 0), 'EE']}
Raw_element_tuple ==
    <<"{", "'", "a", "'", ":", " ", "[", "(", "'", "A", "A", "'", ",", " ",
      "0", ")", ",", " ", "'", "E", "E", "'", "]", "}">>

\* an entry whose tuple has one field: {'a': [[('AA')]]}
Raw_short_tuple ==
    <<"{", "'", "a", "'", ":", " ", "[", "[", "(", "'", "A", "A", "'", ")",
      "]", "]", "}">>

\* a list of alternatives whose second tuple has one field: {'a': [[[('AA', 0), ('CC')], 'EE']]}
Raw_short_tuple_in_list ==
    <<"{", "'", "a", "'", ":", " ", "[", "[", "[", "(", "'", "A", "A", "'",
      ",", " ", "0", ")", ",", " ", "(", "'", "C", "C", "'", ")", "]", ",",
      " ", "'", "E", "E", "'", "]", "]", "}">>

\* a table whose closing brace is missing: {'a': [[('AA', 0)]]
Raw_unterminated ==
    <<"{", "'", "a", "'", ":", " ", "[", "[", "(", "'", "A", "A", "'", ",",
      " ", "0", ")", "]", "]">>

\* an opening brace and nothing more: {
Raw_unterminated_bare ==
    <<"{">>

\* a value list that is opened and never closed: {'a': [}
Raw_open_list ==
    <<"{", "'", "a", "'", ":", " ", "[", "}">>

\* an entry whose list of alternatives is empty: {'a': [[[], 'AA']]}
Raw_empty_alternatives ==
    <<"{", "'", "a", "'", ":", " ", "[", "[", "[", "]", ",", " ", "'", "A",
      "A", "'", "]", "]", "}">>

\* an offset written in base 16: {'a': [[('AA', 0x10), 'EE']]}
Raw_hex_offset ==
    <<"{", "'", "a", "'", ":", " ", "[", "[", "(", "'", "A", "A", "'", ",",
      " ", "0", "x", "1", "0", ")", ",", " ", "'", "E", "E", "'", "]", "]",
      "}">>

\* an offset with a fraction: {'a': [[('AA', 1.5), 'EE']]}
Raw_float_offset ==
    <<"{", "'", "a", "'", ":", " ", "[", "[", "(", "'", "A", "A", "'", ",",
      " ", "1", ".", "5", ")", ",", " ", "'", "E", "E", "'", "]", "]", "}">>

\* an offset in quotes: {'a': [[('AA', '4'), 'EE']]}
Raw_quoted_offset ==
    <<"{", "'", "a", "'", ":", " ", "[", "[", "(", "'", "A", "A", "'", ",",
      " ", "'", "4", "'", ")", ",", " ", "'", "E", "E", "'", "]", "]", "}">>

\* the offset 0: {'a': [[('AA', 0), 'EE']]}
Raw_zero_offset ==
    <<"{", "'", "a", "'", ":", " ", "[", "[", "(", "'", "A", "A", "'", ",",
      " ", "0", ")", ",", " ", "'", "E", "E", "'", "]", "]", "}">>

RawBodies ==
    {[raw |-> Raw_unquoted_key, class |-> "unquoted_key"],
     [raw |-> Raw_double_quoted_key, class |-> "unquoted_key"],
     [raw |-> Raw_value_tuple, class |-> "value_no_bracket"],
     [raw |-> Raw_value_number, class |-> "value_no_bracket"],
     [raw |-> Raw_element_tuple, class |-> "element_no_bracket"],
     [raw |-> Raw_short_tuple, class |-> "short_tuple"],
     [raw |-> Raw_short_tuple_in_list, class |-> "short_tuple"],
     [raw |-> Raw_unterminated, class |-> "unterminated"],
     [raw |-> Raw_unterminated_bare, class |-> "unterminated"],
     [raw |-> Raw_open_list, class |-> "open_list"],
     [raw |-> Raw_empty_alternatives, class |-> "empty_alternatives"],
     [raw |-> Raw_hex_offset, class |-> "bad_offset"],
     [raw |-> Raw_float_offset, class |-> "bad_offset"],
     [raw |-> Raw_quoted_offset, class |-> "bad_offset"],
     [raw |-> Raw_zero_offset, class |-> "zero_offset"]}

\* the pieces joined by the separator text
JoinWith(ss, sep) ==
    IF ss = <<>> THEN <<>>
    ELSE ss[1] \o Concat([k \in 1..(Len(ss) - 1) |-> sep \o ss[k + 1]])

Quoted(s) == <<"'">> \o s \o <<"'">>

\* a signed integer in base 10
RenderInt(n) == IF n < 0 THEN <<"-">> \o Decimal(0 - n) ELSE Decimal(n)

\* ('hex', off[, 'override'])
RenderPat(pat, lay) ==
    <<"(">> \o Quoted(pat.hex_mask) \o lay.sep \o RenderInt(pat.offset)
    \o (IF pat.override_hex.some
        THEN lay.sep \o Quoted(pat.override_hex.str) ELSE <<>>)
    \o <<")">>

\* [ ('hex', off), 'repl' ] for a single alternative where the layout writes
\* it so, [ [ ('hex', off), (...) ], 'repl' ] otherwise; a missing default
\* replacement is left out or written None
RenderSet(set, lay) ==
    <<"[">>
    \o (IF lay.tuple_form /\ Len(set.patterns) = 1
        THEN RenderPat(set.patterns[1], lay)
        ELSE <<"[">>
             \o JoinWith([k \in 1..Len(set.patterns) |->
                             RenderPat(set.patterns[k], lay)], lay.sep)
             \o <<"]">>)
    \o (IF set.default_replacement.some
        THEN lay.sep \o Quoted(set.default_replacement.str) ELSE lay.none)
    \o <<"]">>

\* 'key': [ entry, entry, ... ]
RenderEntry(key, sets, lay) ==
    Quoted(key) \o lay.colon \o <<"[">>
    \o JoinWith([k \in 1..Len(sets) |-> RenderSet(sets[k], lay)], lay.sep)
    \o <<"]">>

\* the keys of the tables written out, in the order of their entries
ParserKeys == << <<"a">>, <<"b", "/", "c", ".", "d", "l", "l">>, <<"d">>, <<"e">> >>

\* { 'key': [...], 'key': [...] }: entry k of the table has key ParserKeys[k]
RenderTable(table, lay) ==
    IF table = <<>> THEN Str_empty_dict
    ELSE <<"{">> \o lay.open
         \o JoinWith([k \in 1..Len(table) |->
                         RenderEntry(ParserKeys[k], table[k], lay)],
                     lay.entry_sep)
         \o lay.close \o <<"}">>

\* everything on one line without a blank; blanks after commas and colons
\* and None for a missing default; one entry per line with comments and a
\* trailing comma
Lay_compact ==
    [sep |-> <<",">>, colon |-> <<":">>, open |-> <<>>, entry_sep |-> <<",">>,
     close |-> <<>>, tuple_form |-> TRUE, none |-> <<>>]
Lay_spaced ==
    [sep |-> <<",", " ">>, colon |-> <<":", " ">>, open |-> <<" ">>,
     entry_sep |-> <<",", " ">>, close |-> <<" ">>, tuple_form |-> FALSE,
     none |-> <<",", " ", "N", "o", "n", "e">>]
Lay_lines ==
    [sep |-> <<",", " ">>, colon |-> <<" ", ":", " ">>, open |-> <<"\n", " ", " ">>,
     entry_sep |-> <<",", " ", "#", " ", "x", "\n", " ", " ">>,
     close |-> <<",", "\n">>, tuple_form |-> TRUE, none |-> <<>>]
Layouts == {Lay_compact, Lay_spaced, Lay_lines}

\* the PatchSets written out: one alternative with a default, two
\* alternatives with a wildcard, a negative offset and an override, one
\* alternative without any replacement
PSet_one ==
    [patterns |-> <<Pat(Str_AA, 0, NoStr)>>,
     default_replacement |-> SomeStr(Str_EE)]
PSet_two ==
    [patterns |-> <<Pat(Str_AAxxCC, 12, SomeStr(Str_EEEE)), Pat(Str_CC, -2, NoStr)>>,
     default_replacement |-> SomeStr(Str_DDDD)]
PSet_bare ==
    [patterns |-> <<Pat(Str_CC, -10, NoStr)>>, default_replacement |-> NoStr]
ParserValueLists ==
    {<<PSet_one>>, <<PSet_two>>, <<PSet_one, PSet_two>>, <<PSet_bare, PSet_one>>}
ParserTables == UNION {[1..n -> ParserValueLists] : n \in 0..MaxEntries}

\* the four ways a table is introduced, up to its opening brace
Spellings(name, alt) ==
    << name \o <<" ", "=", " ">>, name \o <<"=">>,
       alt \o <<" ", "=", " ">>, alt \o <<"=">> >>

\* a section of the script: nothing, a table written out, or a raw body
NoSection ==
    [kind |-> "absent", spelling |-> 1, table |-> <<>>, layout |-> Lay_compact,
     raw |-> <<>>, class |-> "none"]
TableSection(spelling, table, lay) ==
    [kind |-> "table", spelling |-> spelling, table |-> table, layout |-> lay,
     raw |-> <<>>, class |-> "none"]
RawSection(spelling, body) ==
    [kind |-> "raw", spelling |-> spelling, table |-> <<>>,
     layout |-> Lay_compact, raw |-> body.raw, class |-> body.class]

SectionText(sec, name, alt) ==
    IF sec.kind = "absent" THEN <<>>
    ELSE Spellings(name, alt)[sec.spelling]
         \o (IF sec.kind = "table" THEN RenderTable(sec.table, sec.layout)
             ELSE sec.raw)

\* a comment line, the 32-bit section, the 64-bit section
ScriptText(given) ==
    <<"#", " ", "{", "\n">>
    \o SectionText(given.s32, Str_patches32, Str_patches_32) \o <<"\n">>
    \o SectionText(given.s64, Str_patches64, Str_patches_64) \o <<"\n">>

Sections32 ==
    {NoSection}
    \cup {TableSection(sp, t, lay) : sp \in {1, 4}, t \in ParserTables, lay \in Layouts}
    \cup {RawSection(sp, b) : sp \in {2, 3}, b \in RawBodies}
Sections64 ==
    {NoSection,
     TableSection(4, <<<<PSet_one>>>>, Lay_compact),
     RawSection(1, [raw |-> Raw_short_tuple, class |-> "short_tuple"])}

InitParse ==
    /\ IdleMatcher
    /\ IdleResolver
    /\ IdleSession
    /\ p_given \in [s32 : Sections32, s64 : Sections64]
    /\ p_text = ScriptText(p_given)
    /\ p_pc = "ready"
    /\ p_stripped = <<>>
    /\ p_dicts = <<>>
    /\ p_res = [kind |-> "idle", map32 |-> <<>>, map64 |-> <<>>]

\* let text = strip_comments(src)
Strip ==
    /\ p_pc = "ready"
    /\ p_stripped' = StripComments(p_text)
    /\ p_pc' = "stripped"
    /\ UNCHANGED <<p_given, p_text, p_dicts, p_res, mvars, rvars, svars>>

\* let d32 = ...; let d64 = ...
Locate ==
    /\ p_pc = "stripped"
    /\ p_dicts' = <<DictSource(p_stripped, Str_patches32, Str_patches_32),
                    DictSource(p_stripped, Str_patches64, Str_patches_64)>>
    /\ p_pc' = "located"
    /\ UNCHANGED <<p_given, p_text, p_stripped, p_res, mvars, rvars, svars>>

\* Ok((parse_dict(d32)?, parse_dict(d64)?))
ParseTables ==
    /\ p_pc = "located"
    /\ p_res' = PatchesFrom(parse_dict(p_dicts[1]), parse_dict(p_dicts[2]))
    /\ p_pc' = "done"
    /\ UNCHANGED <<p_given, p_text, p_stripped, p_dicts, mvars, rvars, svars>>

NextParse ==
    \/ Strip
    \/ Locate
    \/ ParseTables

SpecParse == InitParse /\ [][NextParse]_vars

(***************************************************************************)
(* The patch session.  The script is held by what parsing it gives: the    *)
(* two tables, or a parse error.                                           *)
(***************************************************************************)
K_test == <<"b", "i", "n", "/", "t", "e", "s", "t", ".", "d", "l", "l">>
K_client == Str_bin_client_dll
K_win64_test ==
    <<"b", "i", "n", "/", "w", "i", "n", "6", "4", "/",
      "t", "e", "s", "t", ".", "d", "l", "l">>
SessionKeys == {K_test, K_client, K_win64_test}

\* a key under a directory bin of the binary directory, and the file of
\* that name under the 64-bit subdirectory
K_bin_bin_test ==
    <<"b", "i", "n", "/", "b", "i", "n", "/",
      "t", "e", "s", "t", ".", "d", "l", "l">>
K_win64_bin_test ==
    <<"b", "i", "n", "/", "w", "i", "n", "6", "4", "/", "b", "i", "n", "/",
      "t", "e", "s", "t", ".", "d", "l", "l">>

Rels ==
    {EffectiveRel(k, b) : k \in SessionKeys \cup {K_bin_bin_test},
                          b \in BOOLEAN}
    \cup {K_win64_bin_test}
TestRels == {EffectiveRel(K_test, b) : b \in BOOLEAN}
ClientRels == {EffectiveRel(K_client, b) : b \in BOOLEAN}

FsPaths ==
    {<<"steam", "", r>> : r \in Rels}
    \cup {<<"rtx", d, r>> : d \in {""} \cup SubDirs, r \in Rels}

\* files of the Steam install hold AA CC, live files AA AA, files of the
\* subdirectory gmod CC AA
SteamBytes == <<170, 204>>
LiveBytes == <<170, 170>>
GmodBytes == <<204, 170>>

\* an install with the given relative paths present under the Steam
\* install and under rtx_root, and client.dll under gmod or not
InstallFs(steamHas, liveHas, gmodHas) ==
    [p \in FsPaths |->
        IF p[1] = "steam" /\ p[3] \in steamHas THEN File(SteamBytes)
        ELSE IF p[1] = "rtx" /\ p[2] = "" /\ p[3] \in liveHas
        THEN File(LiveBytes)
        ELSE IF p[1] = "rtx" /\ p[2] = "gmod" /\ gmodHas /\ p[3] \in ClientRels
        THEN File(GmodBytes)
        ELSE Absent]

\* PatchSets of the session: AA to EE at the match, CC to EE EE one byte
\* after the match, and a signature that begins with a wildcard
Set_AA ==
    [patterns |-> <<Pat(Str_AA, 0, NoStr)>>,
     default_replacement |-> SomeStr(Str_EE)]
Set_CC ==
    [patterns |-> <<Pat(Str_CC, 1, NoStr)>>,
     default_replacement |-> SomeStr(Str_EEEE)]
Set_xxCC ==
    [patterns |-> <<Pat(Str_xxCC, 0, NoStr)>>, default_replacement |-> NoStr]
SessionLists == {<<>>, <<Set_AA>>, <<Set_CC, Set_AA>>, <<Set_xxCC, Set_AA>>}

EmptyTable == <<>>
Tables ==
    UNION {[K -> SessionLists] :
              K \in {X \in SUBSET SessionKeys : Cardinality(X) <= MaxKeys}}
Scripts ==
    {[ok |-> TRUE, map32 |-> t, map64 |-> EmptyTable] : t \in Tables}
    \cup {[ok |-> TRUE, map32 |-> EmptyTable, map64 |-> t] : t \in Tables}
    \cup {[ok |-> FALSE, map32 |-> EmptyTable, map64 |-> EmptyTable]}

\* the end-to-end example: one key with [[('DEADBEEF', 0)], 'CAFEBABE'] and
\* a 16-byte source holding DE AD BE EF once, at offset 4
Str_DEADBEEF == <<"D", "E", "A", "D", "B", "E", "E", "F">>
Str_CAFEBABE == <<"C", "A", "F", "E", "B", "A", "B", "E">>
ExampleSet ==
    [patterns |-> <<Pat(Str_DEADBEEF, 0, NoStr)>>,
     default_replacement |-> SomeStr(Str_CAFEBABE)]
ExampleTable == [k \in {K_test} |-> <<ExampleSet>>]
ExampleScript == [ok |-> TRUE, map32 |-> ExampleTable, map64 |-> ExampleTable]
ExampleSource ==
    [i \in 1..16 |->
        IF i = 5 THEN 222 ELSE IF i = 6 THEN 173 ELSE IF i = 7 THEN 190
        ELSE IF i = 8 THEN 239 ELSE i]
ExampleFs ==
    [p \in FsPaths |->
        IF p[1] = "steam" /\ p[3] \in TestRels THEN File(ExampleSource)
        ELSE Absent]

\* a table whose one key is bin/bin/test.dll
NestedTable == [k \in {K_bin_bin_test} |-> <<Set_AA>>]
NestedScript == [ok |-> TRUE, map32 |-> NestedTable, map64 |-> NestedTable]

\* scripts given as text

\* a script without any table
Text_no_tables ==
    <<"#", " ", "p", "a", "t", "c", "h", "e", "s", "\n", "x", " ", "=", " ",
      "{", "}", "\n">>

\* a script with the 32-bit table only
Text_only32 ==
    <<"p", "a", "t", "c", "h", "e", "s", "3", "2", " ", "=", " ", "{", "'",
      "b", "i", "n", "/", "t", "e", "s", "t", ".", "d", "l", "l", "'", ":",
      " ", "[", "[", "(", "'", "A", "A", "'", ",", " ", "0", ")", ",", " ",
      "'", "E", "E", "'", "]", "]", "}", "\n">>

\* a script with the 64-bit table only
Text_only64 ==
    <<"p", "a", "t", "c", "h", "e", "s", "_", "6", "4", "=", "{", "'", "b",
      "i", "n", "/", "c", "l", "i", "e", "n", "t", ".", "d", "l", "l", "'",
      ":", " ", "[", "[", "(", "'", "A", "A", "'", ",", " ", "0", ")", ",",
      " ", "'", "E", "E", "'", "]", "]", "}", "\n">>

\* a script whose 32-bit table has a value that is no list
Text_bad32 ==
    <<"p", "a", "t", "c", "h", "e", "s", "3", "2", " ", "=", " ", "{", "'",
      "b", "i", "n", "/", "t", "e", "s", "t", ".", "d", "l", "l", "'", ":",
      " ", "5", "}", "\n">>

\* a script with a 64-bit table only, whose key is not quoted
Text_bad64 ==
    <<"p", "a", "t", "c", "h", "e", "s", "6", "4", " ", "=", " ", "{", "b",
      "i", "n", ":", " ", "[", "[", "(", "'", "A", "A", "'", ",", " ", "0",
      ")", ",", " ", "'", "E", "E", "'", "]", "]", "}", "\n">>

\* a script whose 32-bit table is never closed
Text_unterminated32 ==
    <<"p", "a", "t", "c", "h", "e", "s", "3", "2", " ", "=", " ", "{", "'",
      "b", "i", "n", "/", "t", "e", "s", "t", ".", "d", "l", "l", "'", ":",
      " ", "[", "[", "(", "'", "A", "A", "'", ",", " ", "0", ")", ",", " ",
      "'", "E", "E", "'", "]", "]", "\n">>

SessionTexts ==
    {Text_no_tables,
     Text_only32,
     Text_only64,
     Text_bad32,
     Text_bad64,
     Text_unterminated32}

\* a script that is still text: nothing is known of its tables
Unparsed == [ok |-> FALSE, map32 |-> EmptyTable, map64 |-> EmptyTable]

\* the tables a parse gives, or the failure of the parse
ScriptOf(res) ==
    [ok |-> res.kind = "ok", map32 |-> res.map32, map64 |-> res.map64]

\* the orders in which a HashMap may hand out the keys
KeyOrders(K) ==
    {f \in [1..Cardinality(K) -> K] : \A i, j \in DOMAIN f : f[i] = f[j] => i = j}

InitSession ==
    /\ IdleMatcher
    /\ IdleResolver
    /\ IdleParser
    /\ s_pc = "fetch"
    /\ s_is64 \in BOOLEAN
    /\ \/ /\ s_steam = TRUE
          /\ s_script \in Scripts
          /\ \E steamHas \in {{}, Rels, TestRels, ClientRels},
                liveHas \in {{}, Rels}, gmodHas \in BOOLEAN :
                s_fs = InstallFs(steamHas, liveHas, gmodHas)
          /\ s_text = NoStr
       \/ /\ s_steam = FALSE
          /\ s_script \in Scripts
          /\ \E liveHas \in {{}, Rels}, gmodHas \in BOOLEAN :
                s_fs = InstallFs({}, liveHas, gmodHas)
          /\ s_text = NoStr
       \/ /\ s_steam = TRUE
          /\ s_script = ExampleScript
          /\ s_fs = ExampleFs
          /\ s_text = NoStr
       \/ /\ s_steam = TRUE
          /\ s_script = NestedScript
          /\ \E steamHas \in {{}, Rels} : s_fs = InstallFs(steamHas, Rels, FALSE)
          /\ s_text = NoStr
       \/ /\ s_steam \in BOOLEAN
          /\ s_script = Unparsed
          /\ \E text \in SessionTexts : s_text = SomeStr(text)
          /\ \E steamHas \in {{}, Rels} :
                s_fs = InstallFs(IF s_steam THEN steamHas ELSE {}, Rels, TRUE)
    /\ s_map = EmptyTable
    /\ s_keys = <<>>
    /\ s_i = 0
    /\ s_warnings = <<>>
    /\ s_files_patched = 0
    /\ s_patched_files = <<>>
    /\ s_progress = <<>>
    /\ s_d = 0
    /\ s_report = <<>>
    /\ s_fetch = NoFetch
    /\ s_reads = {}

\* the script fetch: the primary URL, and the fallback URL when the primary
\* answers with a status that is no success
Fetch ==
    /\ s_pc = "fetch"
    /\ s_progress' = Append(s_progress, 5)
    /\ \E primary \in {"ok", "transport_err", "body_err", "http_err"},
          fallback \in {"ok", "fail"} :
          /\ s_fetch' = [primary |-> primary,
                         fallback |-> IF primary = "http_err" THEN fallback
                                      ELSE "none"]
          /\ s_pc' = IF primary = "ok" \/ (primary = "http_err" /\ fallback = "ok")
                     THEN "parse" ELSE "failed"
    /\ UNCHANGED <<s_is64, s_steam, s_fs, s_script, s_map, s_keys, s_i,
                   s_warnings, s_files_patched, s_patched_files, s_d, s_report,
                   s_reads, s_text, mvars, rvars, pvars>>

\* what parse_patches_from_python(&text) gives for the script fetched
Parsed ==
    IF s_text.some THEN ScriptOf(parse_patches_from_python(s_text.str))
    ELSE s_script

\* parsing that goes on with empty tables when the script does not parse
Parse_IgnoreError ==
    /\ s_pc = "parse"
    /\ s_progress' = Append(s_progress, 10)
    /\ s_script' = Parsed
    /\ s_map' = IF s_is64 THEN s_script'.map64 ELSE s_script'.map32
    /\ s_keys' \in KeyOrders(DOMAIN s_map')
    /\ s_pc' = "keys"
    /\ UNCHANGED <<s_is64, s_steam, s_fs, s_i, s_warnings,
                   s_files_patched, s_patched_files, s_d, s_report,
                   s_fetch, s_reads, s_text, mvars, rvars, pvars>>

\* parsing, the choice of the table and the collection of its keys
Parse ==
    /\ s_pc = "parse"
    /\ s_progress' = Append(s_progress, 10)
    /\ s_script' = Parsed
    /\ IF s_script'.ok
       THEN /\ s_map' = IF s_is64 THEN s_script'.map64 ELSE s_script'.map32
            /\ s_keys' \in KeyOrders(DOMAIN s_map')
            /\ s_pc' = "keys"
       ELSE /\ s_pc' = "failed"
            /\ UNCHANGED <<s_map, s_keys>>
    /\ UNCHANGED <<s_is64, s_steam, s_fs, s_i, s_warnings,
                   s_files_patched, s_patched_files, s_d, s_report,
                   s_fetch, s_reads, s_text, mvars, rvars, pvars>>

\* the key of the current loop iteration, its effective path and the
\* percentage reported for it
CurRel == s_keys[s_i + 1]
CurEff == EffectiveRel(CurRel, s_is64)
CurPercent ==
    KeyPercent(s_i, IF Len(s_keys) > 1 THEN Len(s_keys) ELSE 1)

\* what a call of patch_file leaves in the session
AfterPatchFile(r) ==
    /\ s_fs' = r.fs
    /\ s_warnings' = r.warnings
    /\ s_files_patched' = r.files_patched
    /\ s_pc' = IF r.status = "ok" THEN "keys"
               ELSE IF r.status = "panic" THEN "panic" ELSE "failed"
    /\ s_i' = IF r.status = "ok" THEN s_i + 1 ELSE s_i

\* a loop iteration whose source exists under the vanilla root
PatchKeyVanilla ==
    /\ s_pc = "keys"
    /\ s_i < Len(s_keys)
    /\ s_fs[<<VanillaRoot(s_steam), "", CurEff>>].present
    /\ s_progress' = Append(s_progress, CurPercent)
    /\ \E io \in {"ok", "read_err", "write_err"} :
          /\ AfterPatchFile(PatchFile(s_fs, <<VanillaRoot(s_steam), "", CurEff>>,
                                      CurEff, s_map[CurRel], io, s_warnings,
                                      s_files_patched))
          /\ s_patched_files' =
                IF s_pc' = "keys" THEN Append(s_patched_files, CurEff)
                ELSE s_patched_files
    /\ s_reads' = s_reads \cup {<<VanillaRoot(s_steam), "", CurEff>>}
    /\ UNCHANGED <<s_is64, s_steam, s_script, s_map, s_keys, s_d, s_report,
                   s_fetch, s_text, mvars, rvars, pvars>>

\* a loop iteration whose source is found by the client.dll search of the
\* subdirectories of rtx_root
PatchKeyFallback ==
    /\ s_pc = "keys"
    /\ s_i < Len(s_keys)
    /\ ~s_fs[<<VanillaRoot(s_steam), "", CurEff>>].present
    /\ EndsWith(CurEff, Str_bin_client_dll)
    /\ s_progress' = Append(s_progress, CurPercent)
    /\ \E d \in SubDirs, io \in {"ok", "read_err", "write_err"} :
          /\ s_fs[<<"rtx", d, CurEff>>].present
          /\ AfterPatchFile(PatchFile(s_fs, <<"rtx", d, CurEff>>, CurEff,
                                      s_map[CurRel], io, s_warnings,
                                      s_files_patched))
          /\ s_reads' = s_reads \cup {<<"rtx", d, CurEff>>}
    /\ UNCHANGED <<s_is64, s_steam, s_script, s_map, s_keys, s_patched_files,
                   s_d, s_report, s_fetch, s_text, mvars, rvars, pvars>>

\* a loop iteration that returns an error when it finds no source
PatchKeyMissing_Abort ==
    /\ s_pc = "keys"
    /\ s_i < Len(s_keys)
    /\ ~s_fs[<<VanillaRoot(s_steam), "", CurEff>>].present
    /\ \E listed \in BOOLEAN :
          \/ ~EndsWith(CurEff, Str_bin_client_dll)
          \/ ~listed
          \/ \A d \in SubDirs : ~s_fs[<<"rtx", d, CurEff>>].present
    /\ s_progress' = Append(s_progress, CurPercent)
    /\ s_pc' = "failed"
    /\ UNCHANGED <<s_i, s_warnings, s_is64, s_steam, s_fs, s_script, s_map,
                   s_keys, s_files_patched, s_patched_files, s_d, s_report,
                   s_fetch, s_reads, s_text, mvars, rvars, pvars>>

\* a loop iteration that finds no source: the key is no client.dll, no
\* subdirectory holds it, or rtx_root cannot be listed
PatchKeyMissing ==
    /\ s_pc = "keys"
    /\ s_i < Len(s_keys)
    /\ ~s_fs[<<VanillaRoot(s_steam), "", CurEff>>].present
    /\ \E listed \in BOOLEAN :
          \/ ~EndsWith(CurEff, Str_bin_client_dll)
          \/ ~listed
          \/ \A d \in SubDirs : ~s_fs[<<"rtx", d, CurEff>>].present
    /\ s_progress' = Append(s_progress, CurPercent)
    /\ s_warnings' =
          Append(s_warnings, <<"Missing file [">> \o CurEff \o <<"]">>)
    /\ s_i' = s_i + 1
    /\ UNCHANGED <<s_pc, s_is64, s_steam, s_fs, s_script, s_map, s_keys,
                   s_files_patched, s_patched_files, s_d, s_report,
                   s_fetch, s_reads, s_text, mvars, rvars, pvars>>

\* the end of the loop over the keys
KeysDone ==
    /\ s_pc = "keys"
    /\ s_i = Len(s_keys)
    /\ s_progress' = s_progress \o <<95, 97>>
    /\ s_pc' = "deploy"
    /\ UNCHANGED <<s_is64, s_steam, s_fs, s_script, s_map, s_keys, s_i,
                   s_warnings, s_files_patched, s_patched_files, s_d, s_report,
                   s_fetch, s_reads, s_text, mvars, rvars, pvars>>

\* one copy of a staged file over its live path
DeployOne ==
    /\ s_pc = "deploy"
    /\ s_d < Len(s_patched_files)
    /\ \E copied \in BOOLEAN :
          IF copied /\ s_fs[<<"rtx", "patched", s_patched_files[s_d + 1]>>].present
          THEN /\ s_fs' = [s_fs EXCEPT
                             ![<<"rtx", "", s_patched_files[s_d + 1]>>] =
                                 s_fs[<<"rtx", "patched", s_patched_files[s_d + 1]>>]]
               /\ UNCHANGED s_warnings
          ELSE /\ s_warnings' =
                     Append(s_warnings,
                            <<"Failed to deploy ">> \o s_patched_files[s_d + 1]
                            \o <<": ", "io error">>)
               /\ UNCHANGED s_fs
    /\ s_d' = s_d + 1
    /\ UNCHANGED <<s_pc, s_is64, s_steam, s_script, s_map, s_keys, s_i,
                   s_files_patched, s_patched_files, s_progress, s_report,
                   s_fetch, s_reads, s_text, mvars, rvars, pvars>>

\* the report and the return of the PatchResult
WriteReport ==
    /\ s_pc = "deploy"
    /\ s_d = Len(s_patched_files)
    /\ s_progress' = s_progress \o <<98, 100>>
    /\ \E written \in BOOLEAN :
          s_report' = IF written
                      THEN ReportText(s_files_patched, s_patched_files, s_warnings)
                      ELSE s_report
    /\ s_pc' = "done"
    /\ UNCHANGED <<s_is64, s_steam, s_fs, s_script, s_map, s_keys, s_i,
                   s_warnings, s_files_patched, s_patched_files, s_d,
                   s_fetch, s_reads, s_text, mvars, rvars, pvars>>

Next ==
    \/ Fetch
    \/ Parse
    \/ PatchKeyVanilla
    \/ PatchKeyFallback
    \/ PatchKeyMissing
    \/ KeysDone
    \/ DeployOne
    \/ WriteReport

Spec == InitSession /\ [][Next]_vars

(***************************************************************************)
(* The session as a function of the order of the keys, with every read,    *)
(* write and copy succeeding: the loop over the keys and the deploy loop.  *)
(***************************************************************************)

\* the locals the loop changes, and the files
Locals(fs, warnings, files_patched, patched_files, status) ==
    [fs |-> fs, warnings |-> warnings, files_patched |-> files_patched,
     patched_files |-> patched_files, status |-> status]

\* the subdirectory in which the client.dll search finds eff when read_dir
\* lists `first` first
FoundDir(fs, eff, first) ==
    IF fs[<<"rtx", first, eff>>].present THEN first
    ELSE CHOOSE d \in SubDirs : fs[<<"rtx", d, eff>>].present

\* the locals after patch_file, with the push of the vanilla branch or not
AfterPatch(r, patched_files) ==
    Locals(r.fs, r.warnings, r.files_patched, patched_files, r.status)

\* one iteration of the loop for the key rel
KeyStep(st, rel, sets, is64, steam, first) ==
    IF st.fs[<<VanillaRoot(steam), "", EffectiveRel(rel, is64)>>].present
    THEN AfterPatch(PatchFile(st.fs,
                              <<VanillaRoot(steam), "", EffectiveRel(rel, is64)>>,
                              EffectiveRel(rel, is64), sets, "ok",
                              st.warnings, st.files_patched),
                    Append(st.patched_files, EffectiveRel(rel, is64)))
    ELSE IF /\ EndsWith(EffectiveRel(rel, is64), Str_bin_client_dll)
            /\ \E d \in SubDirs :
                  st.fs[<<"rtx", d, EffectiveRel(rel, is64)>>].present
    THEN AfterPatch(PatchFile(st.fs,
                              <<"rtx",
                                FoundDir(st.fs, EffectiveRel(rel, is64), first),
                                EffectiveRel(rel, is64)>>,
                              EffectiveRel(rel, is64), sets, "ok",
                              st.warnings, st.files_patched),
                    st.patched_files)
    ELSE Locals(st.fs,
                Append(st.warnings,
                       <<"Missing file [">> \o EffectiveRel(rel, is64)
                       \o <<"]">>),
                st.files_patched, st.patched_files, "ok")

RECURSIVE RunKeys(_, _, _, _, _, _, _)
\* the loop over the keys from index i on
RunKeys(st, map, keys, i, is64, steam, first) ==
    IF i >= Len(keys) \/ st.status /= "ok" THEN st
    ELSE RunKeys(KeyStep(st, keys[i + 1], map[keys[i + 1]], is64, steam, first),
                 map, keys, i + 1, is64, steam, first)

RECURSIVE DeployAll(_, _, _)
\* the deploy loop from index d on: every copy succeeds
DeployAll(fs, patched_files, d) ==
    IF d >= Len(patched_files) THEN fs
    ELSE DeployAll([fs EXCEPT ![<<"rtx", "", patched_files[d + 1]>>] =
                                  fs[<<"rtx", "patched", patched_files[d + 1]>>]],
                   patched_files, d + 1)

\* the locals and the files when the session returns
Finish(st) ==
    IF st.status /= "ok" THEN st
    ELSE Locals(DeployAll(st.fs, st.patched_files, 0), st.warnings,
                st.files_patched, st.patched_files, "ok")

\* the session on the files fs for the keys in the given order
RunSession(fs, map, keys, is64, steam, first) ==
    Finish(RunKeys(Locals(fs, <<>>, 0, <<>>, "ok"), map, keys, 0,
                   is64, steam, first))

(***************************************************************************)
(* Properties of the resolver, stated of the last iteration: the PatchSet  *)
(* r_set met with output buffer r_before, leaving r_last.                  *)
(***************************************************************************)
\* the positions at which a well-formed mask occurs in the buffer
Occurrences(data, mask) ==
    {p \in 0..Len(data) : LiteralsMatchAt(data, mask, p)}

\* the alternatives of the PatchSet that occur exactly once
UniqueAlts(data, set) ==
    {k \in 1..Len(set.patterns) :
        Cardinality(Occurrences(data, set.patterns[k].hex_mask)) = 1}

RECURSIVE Ascending(_)
\* the elements of a set of numbers in ascending order
Ascending(S) ==
    IF S = {} THEN <<>> ELSE <<Min(S)>> \o Ascending(S \ {Min(S)})

RECURSIVE NumberOf(_, _)
\* the number a sequence of digits denotes in the given radix
NumberOf(digits, radix) ==
    IF digits = <<>> THEN 0
    ELSE radix * NumberOf(SubSeq(digits, 1, Len(digits) - 1), radix)
         + HexVal(digits[Len(digits)])

\* C1: the resolver selects the first alternative, in declared order, whose
\* signature occurs exactly once in the original bytes, at that occurrence;
\* it selects none when no alternative occurs exactly once
C1_FirstUniqueWins ==
    r_n >= 1 =>
        IF UniqueAlts(r_orig, r_set) = {} THEN r_last.chosen = 0
        ELSE /\ r_last.chosen = Min(UniqueAlts(r_orig, r_set))
             /\ Occurrences(r_orig, r_set.patterns[r_last.chosen].hex_mask)
                    = {r_last.base}

\* C1, as the code has it: the above whenever the iteration does not panic
C1_FirstUniqueWinsUnlessPanic ==
    (r_n >= 1 /\ r_last.status = "ok") =>
        IF UniqueAlts(r_orig, r_set) = {} THEN r_last.chosen = 0
        ELSE /\ r_last.chosen = Min(UniqueAlts(r_orig, r_set))
             /\ Occurrences(r_orig, r_set.patterns[r_last.chosen].hex_mask)
                    = {r_last.base}

\* the last iteration had a winner and a replacement that decoded, so that a
\* write offset was computed
WriteAttempted == r_n >= 1 /\ r_last.chosen > 0 /\ r_last.pushed /= <<>>

\* C5: a winner matched at m with declared offset k has write offset m + k
\* for k >= 0 and max(0, m - |k|) for k < 0; at match 10, offset 4 writes at
\* 14, offset -4 at 6 and offset -20 at 0
C5_WriteOffset ==
    /\ WriteAttempted =>
         LET m == r_last.base
             k == r_set.patterns[r_last.chosen].offset
         IN  /\ r_last.off >= 0
             /\ k >= 0 => r_last.off = m + k
             /\ (k < 0 /\ m + k >= 0) => r_last.off = m + k
             /\ (k < 0 /\ m + k < 0) => r_last.off = 0
    /\ (r_n >= 1 /\ r_orig = OffsetExampleOrig /\ r_set \in OffsetExampleSets)
       => /\ r_last.base = 10 /\ r_last.wrote
          /\ r_set.patterns[1].offset = 4 => r_last.off = 14
          /\ r_set.patterns[1].offset = -4 => r_last.off = 6
          /\ r_set.patterns[1].offset = -20 => r_last.off = 0

C5_Witness ==
    /\ r_n >= 1 /\ r_orig = OffsetExampleOrig /\ r_set \in OffsetExampleSets
    /\ r_set.patterns[1].offset = -20 /\ r_last.off = 0 /\ r_out[1] = 238

\* C6: a write that would end past the output buffer pushes the
\* out-of-range diagnostic and leaves the buffer as it was; any other write
\* overwrites exactly [off, off + len) with the replacement and pushes the
\* diagnostic with the offset in hexadecimal and the length
C6_WriteInRangeOrNothing ==
    WriteAttempted =>
        LET off == r_last.off
            n == Len(r_last.repl)
            w == r_last.pushed[1]
        IN  /\ Len(r_last.pushed) = 1
            /\ Len(r_out) = Len(r_before)
            /\ IF off + n > Len(r_before)
               THEN /\ r_out = r_before
                    /\ w = <<"Write out of range for pattern ">>
                            \o r_set.patterns[r_last.chosen].hex_mask
               ELSE /\ \A i \in 1..Len(r_out) :
                         r_out[i] = IF off < i /\ i <= off + n
                                    THEN r_last.repl[i - off]
                                    ELSE r_before[i]
                    /\ w[1] = "Applied patch at 0x"
                    /\ \E j \in 3..(Len(w) - 1) :
                         /\ w[j] = ", len "
                         /\ NumberOf(SubSeq(w, 2, j - 1), 16) = off
                         /\ NumberOf(SubSeq(w, j + 1, Len(w)), 10) = n

\* a replacement of two bytes refused where only its first byte would fit
C6_Witness ==
    /\ WriteAttempted /\ ~r_last.wrote
    /\ r_last.off = Len(r_before) - 1 /\ Len(r_last.repl) = 2
    /\ r_out = r_before

\* C7: the bytes written are those of the winner's own override when it has
\* one, and of the PatchSet's default replacement otherwise
C7_OverrideBeforeDefault ==
    (r_n >= 1 /\ r_last.wrote) =>
        LET pat == r_set.patterns[r_last.chosen]
            want == IF pat.override_hex.some
                    THEN HexDecode(pat.override_hex.str).bytes
                    ELSE HexDecode(r_set.default_replacement.str).bytes
        IN  /\ r_last.repl = want
            /\ Slice(r_out, r_last.off, r_last.off + Len(want)) = want

\* the second alternative wins and writes its own override, although the
\* first alternative has another override and the PatchSet has a default
C7_Witness ==
    /\ r_n >= 1 /\ r_last.wrote /\ r_last.chosen = 2
    /\ r_set.patterns[2].override_hex.some
    /\ r_set.default_replacement.some
    /\ r_set.patterns[1].override_hex.some
    /\ r_set.patterns[1].override_hex /= r_set.patterns[2].override_hex

\* the diagnostic entries of one alternative: <hexmask>@0x<offset> for each
\* of its occurrences, ascending
LocsWanted(data, mask) ==
    [i \in 1..Cardinality(Occurrences(data, mask)) |->
        mask \o <<"@0x">> \o UpperHex(Ascending(Occurrences(data, mask))[i])]

\* C8: when no alternative has a unique match the resolver writes nothing
\* and pushes exactly one diagnostic: the pattern-not-found one when no
\* alternative occurs at all, else one listing every occurrence of every
\* alternative, in alternative order and ascending
C8_OneDiagnosticWithoutWinner ==
    (r_n >= 1 /\ UniqueAlts(r_orig, r_set) = {}) =>
        LET all == Concat([k \in 1..Len(r_set.patterns) |->
                              LocsWanted(r_orig, r_set.patterns[k].hex_mask)])
        IN  /\ r_out = r_before
            /\ Len(r_last.pushed) = 1
            /\ r_last.pushed[1] =
                 IF all = <<>> THEN <<"Failed to locate pattern">>
                 ELSE <<"Ambiguous or conflicting pattern(s): ">>
                      \o Join(all, ", ")

\* C8, as the code has it: the above whenever the iteration does not panic
C8_OneDiagnosticUnlessPanic ==
    (r_n >= 1 /\ UniqueAlts(r_orig, r_set) = {} /\ r_last.status = "ok") =>
        LET all == Concat([k \in 1..Len(r_set.patterns) |->
                              LocsWanted(r_orig, r_set.patterns[k].hex_mask)])
        IN  /\ r_out = r_before
            /\ Len(r_last.pushed) = 1
            /\ r_last.pushed[1] =
                 IF all = <<>> THEN <<"Failed to locate pattern">>
                 ELSE <<"Ambiguous or conflicting pattern(s): ">>
                      \o Join(all, ", ")

(***************************************************************************)
(* Properties of the session.                                              *)
(***************************************************************************)
\* the session of the end-to-end example, its source still as given
InExample ==
    /\ s_script = ExampleScript
    /\ s_fs[<<"steam", "", EffectiveRel(K_test, s_is64)>>] = File(ExampleSource)

\* the example's source with bytes 4..7 replaced by CA FE BA BE
ExampleStaged ==
    [i \in 1..16 |->
        IF i = 5 THEN 202 ELSE IF i = 6 THEN 254 ELSE IF i = 7 THEN 186
        ELSE IF i = 8 THEN 190 ELSE ExampleSource[i]]

ExampleStagedPath == <<"rtx", "patched", EffectiveRel(K_test, s_is64)>>
ExampleLivePath == <<"rtx", "", EffectiveRel(K_test, s_is64)>>
AppliedAt4Len4 == <<"Applied patch at 0x", "4", ", len ", "4">>

\* C9 as the specification states it: the example session returns with
\* bytes 4..7 of the staged output replaced by CAFEBABE, every other byte
\* unchanged, files_patched = 1 and an empty warnings list (stated of the
\* runs whose deployment copy succeeded)
C9_ExampleWarningsEmpty ==
    (InExample /\ s_pc = "done" /\ s_fs[ExampleLivePath].present)
    => /\ s_fs[ExampleStagedPath] = File(ExampleStaged)
       /\ s_files_patched = 1
       /\ s_warnings = <<>>

\* C9 as the code has it: the example session returns with bytes 4..7 of the
\* staged output replaced by CAFEBABE, every other byte unchanged,
\* files_patched = 1, and a warnings list that begins with the applied-patch
\* diagnostic "Applied patch at 0x4, len 4" and, when the deployment copy
\* succeeded, holds nothing else
C9_ExampleOneAppliedDiagnostic ==
    (InExample /\ s_pc = "done")
    => /\ s_fs[ExampleStagedPath] = File(ExampleStaged)
       /\ s_files_patched = 1
       /\ Len(s_warnings) >= 1
       /\ s_warnings[1] = AppliedAt4Len4
       /\ (s_fs[ExampleLivePath].present => s_warnings = <<AppliedAt4Len4>>)

C9_Witness ==
    /\ InExample
    /\ s_pc = "done"
    /\ s_fs[ExampleLivePath] = File(ExampleStaged)
    /\ s_warnings = <<AppliedAt4Len4>>

\* the source the current loop iteration reads under the vanilla root
CurSource == s_fs[<<VanillaRoot(s_steam), "", CurEff>>]

\* C10: a resolution failure never aborts the session: no session stops
\* inside the resolver while it patches a file for which some PatchSet of
\* the key has no alternative that matches exactly once
C10_ResolutionFailureNeverAborts ==
    ~(/\ s_pc = "panic"
      /\ CurSource.present
      /\ \E n \in 1..Len(s_map[CurRel]) :
            UniqueAlts(CurSource.bytes, s_map[CurRel][n]) = {})

\* the session stopped in the fetch: only the first progress report was made
FetchAborted == s_pc = "failed" /\ s_progress = <<5>>

\* C11: whenever the request to the primary URL fails, by a transport error,
\* a body that cannot be read or a status that is no success, the fallback
\* URL is requested, and the session stops in the fetch only when both
\* requests have failed
C11_FallbackAfterAnyPrimaryFailure ==
    /\ s_fetch.primary \in {"transport_err", "body_err", "http_err"}
          => s_fetch.fallback /= "none"
    /\ FetchAborted
          => /\ s_fetch.primary \in {"transport_err", "body_err", "http_err"}
             /\ s_fetch.fallback = "fail"

\* what the code does: the fallback URL is requested exactly after a status
\* that is no success, and every other failure of the primary request stops
\* the session at once
C11_FallbackOnlyAfterStatus ==
    /\ s_fetch.fallback /= "none" <=> s_fetch.primary = "http_err"
    /\ FetchAborted
          <=> \/ s_fetch.primary \in {"transport_err", "body_err"}
              \/ s_fetch.fallback = "fail"

(***************************************************************************)
(* Properties of the parser, stated of a finished call.                    *)
(***************************************************************************)
\* the name under which the section of the 32-bit table was written
NameOf32(sec) == IF sec.spelling <= 2 THEN Str_patches32 ELSE Str_patches_32

\* the 32-bit table is opened and its brace depth never returns to zero
Unterminated32 ==
    p_given.s32.kind = "raw" /\ p_given.s32.class = "unterminated"

\* C12: for a table whose opening token is present and whose brace depth
\* never returns to zero, locating the table fails with the unmatched-braces
\* error and the script as a whole fails to parse: the table is not taken to
\* be empty
C12_UnterminatedTableFails ==
    (p_pc = "done" /\ Unterminated32)
    => /\ find_dict(p_stripped, NameOf32(p_given.s32)).kind = "unmatched braces"
       /\ p_dicts[1] /= Str_empty_dict
       /\ p_res.kind = "err"

\* what the code does: the unmatched-braces error of find_dict is dropped
\* with every other error, and the table is parsed as {}
C12_UnterminatedTableIsEmpty ==
    (p_pc = "done" /\ Unterminated32)
    => /\ find_dict(p_stripped, NameOf32(p_given.s32)).kind = "unmatched braces"
       /\ p_dicts[1] = Str_empty_dict
       /\ parse_dict(p_dicts[1]) = ParseOk(<<>>)
       /\ (p_given.s64.kind /= "raw" => p_res.kind = "ok" /\ p_res.map32 = <<>>)

\* the table a section was written from: key k of ParserKeys to entry k
TableOf(sec) ==
    [key \in {ParserKeys[k] : k \in 1..Len(sec.table)} |->
        sec.table[CHOOSE k \in 1..Len(sec.table) : ParserKeys[k] = key]]

\* what a section gives when it is absent or written out from a table
Expected(sec) == IF sec.kind = "table" THEN TableOf(sec) ELSE <<>>

\* C18: a well-formed table literal with N entries parses into a table with
\* exactly N keys, and under every key the PatchSets stand in source order,
\* each alternative with the hex mask, signed offset and optional override
\* written, each PatchSet with the optional default replacement written
C18_ParsingRoundTrip ==
    (p_pc = "done" /\ p_given.s32.kind = "table" /\ p_given.s64.kind /= "raw")
    => /\ p_res.kind = "ok"
       /\ Cardinality(DOMAIN p_res.map32) = Len(p_given.s32.table)
       /\ p_res.map32 = TableOf(p_given.s32)
       /\ p_res.map64 = Expected(p_given.s64)

C18_Witness ==
    /\ p_pc = "done"
    /\ p_given.s32.kind = "table"
    /\ p_given.s32.layout = Lay_lines
    /\ Len(p_given.s32.table) = 2
    /\ p_given.s32.table[2] = <<PSet_bare, PSet_one>>
    /\ p_given.s64.kind = "table"
    /\ Cardinality(DOMAIN p_res.map32) = 2
    /\ p_res.map32[ParserKeys[1]][1] = p_given.s32.table[1][1]

\* the ways of C19 in which an entry of a table body is malformed
MalformedClasses ==
    {"unquoted_key", "value_no_bracket", "element_no_bracket", "short_tuple"}

\* C19: a table body with a malformed entry makes the parse of that table
\* fail with an error and yields no table: for a key that is not quoted, for
\* a key whose value does not start with [, for an element of the value list
\* that is no bracket-delimited entry, and for a tuple of fewer than 2 fields
C19_MalformedEntryFails ==
    (p_pc = "done" /\ p_given.s32.kind = "raw"
        /\ p_given.s32.class \in MalformedClasses)
    => /\ parse_dict(p_dicts[1]).kind = "err"
       /\ p_res.kind = "err"

\* what the code does: the three other ways fail the parse, and an element
\* that is no entry is skipped up to the next comma, so that the key is
\* parsed with the entries that are left
C19_ElementSkipped ==
    (p_pc = "done" /\ p_given.s32.kind = "raw")
    => /\ p_given.s32.class \in MalformedClasses \ {"element_no_bracket"}
             => parse_dict(p_dicts[1]).kind = "err" /\ p_res.kind = "err"
       /\ p_given.s32.class = "element_no_bracket"
             => parse_dict(p_dicts[1]) = ParseOk([k \in {<<"a">>} |-> <<>>])

\* the session returned the parse error: nothing after the callback at 10
ParseAborted == s_pc = "failed" /\ s_progress = <<5, 10>>

\* parse_patches_from_python was called and returned Err
ParseFailed == Len(s_progress) >= 2 /\ ~s_script.ok

\* C13: when parsing the script fails the session aborts at once: no target
\* file has been read, no staged file exists, no live file has other bytes
\* than before, no report is written and no file is counted
C13_ParseFailureAbortsBeforeAnyFile ==
    ParseFailed =>
        /\ ParseAborted
        /\ s_reads = {}
        /\ \A r \in Rels : ~s_fs[<<"rtx", "patched", r>>].present
        /\ \A r \in Rels : s_fs[<<"rtx", "", r>>] \in {Absent, File(LiveBytes)}
        /\ s_report = <<>>
        /\ s_files_patched = 0
        /\ s_warnings = <<>>

\* a script text whose 32-bit table is malformed has been fetched and the
\* session has returned its parse error, with live files in place
C13_Witness ==
    /\ ParseAborted
    /\ s_text = SomeStr(Text_bad32)
    /\ s_fs[<<"rtx", "", K_test>>].present

\* one of the two assignments find_dict looks for: name = { or name={
TagOccurs(text, name) ==
    \/ Contains(text, name \o Str_eq_brace)
    \/ Contains(text, name \o Str_eqbrace)

\* neither spelling of the 32-bit, respectively 64-bit, table is in the text
Absent32(text) ==
    ~TagOccurs(text, Str_patches32) /\ ~TagOccurs(text, Str_patches_32)
Absent64(text) ==
    ~TagOccurs(text, Str_patches64) /\ ~TagOccurs(text, Str_patches_64)

\* the table of the given names, parsed on its own
TableAlone(text, name, alt) ==
    parse_dict(DictSource(StripComments(text), name, alt))

\* the script fetched was a text and has been parsed
TextParsed == s_text.some /\ Len(s_progress) >= 2

\* C14: a table neither spelling of which occurs in the script is empty and
\* is no cause of a parse failure (the parse succeeds exactly when the other
\* table parses); a session whose selected table is empty completes with
\* files_patched = 0 and no diagnostics
C14_MissingTableIsEmpty ==
    /\ (TextParsed /\ Absent32(s_text.str)) =>
          /\ s_script.map32 = EmptyTable
          /\ s_script.ok <=>
                (TableAlone(s_text.str, Str_patches64, Str_patches_64).kind
                    = "ok")
    /\ (TextParsed /\ Absent64(s_text.str)) =>
          /\ s_script.map64 = EmptyTable
          /\ s_script.ok <=>
                (TableAlone(s_text.str, Str_patches32, Str_patches_32).kind
                    = "ok")
    /\ (Len(s_progress) >= 2 /\ s_script.ok
          /\ (IF s_is64 THEN s_script.map64 ELSE s_script.map32) = EmptyTable)
          => /\ s_pc \notin {"failed"}
             /\ s_files_patched = 0
             /\ s_warnings = <<>>
             /\ s_patched_files = <<>>
             /\ s_reads = {}

\* a 32-bit session on a script that has the 64-bit table only is done: the
\* script parsed, the table selected is empty and the other one is not
C14_Witness ==
    /\ s_pc = "done"
    /\ s_text = SomeStr(Text_only64)
    /\ ~s_is64
    /\ s_script.ok
    /\ s_script.map64 /= EmptyTable
    /\ s_map = EmptyTable
    /\ s_files_patched = 0

\* the key in turn has no source: its file is not under the vanilla
\* install and, for a client.dll, under no subdirectory of rtx_root
NoSource ==
    /\ s_pc = "keys"
    /\ s_i < Len(s_keys)
    /\ ~s_fs[<<VanillaRoot(s_steam), "", CurEff>>].present
    /\ \/ ~EndsWith(CurEff, Str_bin_client_dll)
       \/ \A d \in SubDirs : ~s_fs[<<"rtx", d, CurEff>>].present

\* the diagnostic of a key without source
MissingFile(eff) == <<"Missing file [">> \o eff \o <<"]">>

\* C15: the iteration of a key that has no source appends the one
\* diagnostic "Missing file [effective path]", leaves files_patched, the
\* files and the list of files to deploy as they are, and goes on with the
\* next key in the same session
C15_MissingFileIsRecordedAndSkipped ==
    [][NoSource =>
          /\ s_warnings' = Append(s_warnings, MissingFile(CurEff))
          /\ s_files_patched' = s_files_patched
          /\ s_fs' = s_fs
          /\ s_patched_files' = s_patched_files
          /\ s_reads' = s_reads
          /\ s_i' = s_i + 1
          /\ s_pc' = "keys"]_vars

\* a session is done whose first key had no source and whose second key was
\* patched: one missing-file diagnostic, one file counted and deployed
C15_Witness ==
    /\ s_pc = "done"
    /\ Len(s_keys) = 2
    /\ Len(s_warnings) >= 1
    /\ s_warnings[1] = MissingFile(EffectiveRel(s_keys[1], s_is64))
    /\ s_files_patched = 1
    /\ s_patched_files = <<EffectiveRel(s_keys[2], s_is64)>>

\* the diagnostic of a failed copy
FailedToDeploy(rel) == <<"Failed to deploy ">> \o rel \o <<": ", "io error">>

\* the staged output of rel is over its live path, or its copy failed and
\* left a diagnostic
DeployedOrDiagnosed(rel) ==
    \/ s_fs[<<"rtx", "", rel>>] = s_fs[<<"rtx", "patched", rel>>]
    \/ \E k \in 1..Len(s_warnings) : s_warnings[k] = FailedToDeploy(rel)

\* C16: when the session is done every staged output it produced, one
\* whose source came from the client.dll search included, has been copied
\* over its live path, or its failed copy has left one diagnostic
C16_EveryStagedOutputDeployed ==
    s_pc = "done" =>
        \A rel \in Rels :
            s_fs[<<"rtx", "patched", rel>>].present => DeployedOrDiagnosed(rel)

\* what the code does: the outputs staged from the vanilla install are
\* deployed or diagnosed, those staged from the client.dll search are not
\* in the list of files to deploy
C16_VanillaOutputsDeployed ==
    /\ s_pc = "done" =>
          \A k \in 1..Len(s_patched_files) :
              DeployedOrDiagnosed(s_patched_files[k])
    /\ \A p \in s_reads :
          p[1] = "rtx" /\ p[2] /= ""
             => \A k \in 1..Len(s_patched_files) : s_patched_files[k] /= p[3]
    /\ s_pc = "done" =>
          \A rel \in Rels :
              (s_fs[<<"rtx", "patched", rel>>].present
                  /\ ~DeployedOrDiagnosed(rel))
                 => \E d \in SubDirs : <<"rtx", d, rel>> \in s_reads

\* C17: the percentages passed to the progress callback lie in 0..100 and
\* never decrease, whatever the number of keys; a session that is done has
\* ended with a callback at 100
C17_ProgressMonotonic ==
    /\ \A k \in 1..Len(s_progress) : s_progress[k] \in 0..100
    /\ \A k \in 1..(Len(s_progress) - 1) : s_progress[k] <= s_progress[k + 1]
    /\ s_pc = "done" => s_progress[Len(s_progress)] = 100

\* a session over two keys is done: callbacks at 5, 10, one per key, 95,
\* 97, 98 and 100
C17_Witness ==
    /\ s_pc = "done"
    /\ Len(s_keys) = 2
    /\ s_progress = <<5, 10, 12, 52, 95, 97, 98, 100>>

\* the iteration just made ran to its end (no panic in the matcher)
SetResolved == r_n >= 1 /\ r_last.status = "ok"

\* the replacement hex of the winner of the iteration just made
WinnerHex == ReplHex(r_set.patterns[r_last.chosen], r_set)

\* the two diagnostics of a write
IsApplied(w) == StartsWith(w, <<"Applied patch at 0x">>)
IsOutOfRange(w) == StartsWith(w, <<"Write out of range for pattern ">>)

\* C20: every PatchSet appends exactly one diagnostic, except that a unique
\* winner with neither override nor default replacement appends none and
\* writes nothing; a unique winner that has replacement hex yields the
\* applied-patch or the out-of-range diagnostic
C20_OneDiagnosticPerSet ==
    SetResolved =>
        IF r_last.chosen > 0 /\ ~WinnerHex.some
        THEN r_last.pushed = <<>> /\ r_out = r_before
        ELSE /\ Len(r_last.pushed) = 1
             /\ r_last.chosen > 0 =>
                   IsApplied(r_last.pushed[1]) \/ IsOutOfRange(r_last.pushed[1])

\* what the code does: a unique winner whose replacement hex does not
\* decode is silent as well
C20_SilentWhenAbsentOrUndecodable ==
    SetResolved =>
        IF r_last.chosen > 0
           /\ (~WinnerHex.some \/ ~HexDecode(WinnerHex.str).ok)
        THEN r_last.pushed = <<>> /\ r_out = r_before
        ELSE /\ Len(r_last.pushed) = 1
             /\ r_last.chosen > 0 =>
                   IsApplied(r_last.pushed[1]) \/ IsOutOfRange(r_last.pushed[1])

\* the staged paths that exist
StagedRels == {rel \in Rels : s_fs[<<"rtx", "patched", rel>>].present}

\* C21: each staged output path is written at most once in a session: the
\* number of staged writes made so far (files_patched counts them) is the
\* number of staged files that exist, also when keys are rewritten to
\* their win64 equivalents
C21_StagedWrittenOnce == s_files_patched = Cardinality(StagedRels)

\* the keys of the effective table lead to different effective paths
DistinctEffective ==
    \A a, b \in DOMAIN s_map :
        EffectiveRel(a, s_is64) = EffectiveRel(b, s_is64) => a = b

\* what the code does: staged paths are written once when no two keys have
\* the same effective path, which is so on every 32-bit install
C21_WrittenOnceWithoutCollision ==
    /\ DistinctEffective => C21_StagedWrittenOnce
    /\ ~s_is64 => DistinctEffective

\* the number of times x is in the sequence
CountOf(seq, x) == Cardinality({k \in 1..Len(seq) : seq[k] = x})

\* the same multiset of diagnostics
SameBag(w1, w2) ==
    \A k \in 1..Len(w1) : CountOf(w1, w1[k]) = CountOf(w2, w1[k])
    /\ Len(w1) = Len(w2)

\* two sessions that returned left the same files, the same count and the
\* same multiset of diagnostics
SameResult(a, b) ==
    (a.status = "ok" /\ b.status = "ok") =>
        /\ a.fs = b.fs
        /\ a.files_patched = b.files_patched
        /\ SameBag(a.warnings, b.warnings)

\* the loop is about to start on the files as they were found
LoopStarts == s_pc = "keys" /\ s_i = 0 /\ s_progress = <<5, 10>>

\* the sessions on the present files and table are alike for every order
\* of the keys
OrderIndependent ==
    \A order \in KeyOrders(DOMAIN s_map), first \in SubDirs :
        SameResult(RunSession(s_fs, s_map, s_keys, s_is64, s_steam, first),
                   RunSession(s_fs, s_map, order, s_is64, s_steam, first))

\* C22: for a fixed table and fixed source files the bytes staged and
\* deployed for every path, files_patched and the multiset of diagnostics
\* are the same for every order in which the keys are processed
C22_KeyOrderIndependent == LoopStarts => OrderIndependent

\* what the code does: the order of the keys is immaterial when no two keys
\* have the same effective path
C22_OrderIndependentWithoutCollision ==
    (LoopStarts /\ DistinctEffective) => OrderIndependent

\* the loop and the deploy loop of the session behave as RunKeys and
\* DeployAll say: a successful iteration (one in which read_dir did not
\* fail) is a KeyStep, a successful copy is one step of DeployAll
C22_RunMatchesSession ==
    [][/\ (s_pc = "keys" /\ s_pc' = "keys" /\ s_i' = s_i + 1
             /\ (s_reads' /= s_reads \/ NoSource)) =>
            \E first \in SubDirs :
                Locals(s_fs', s_warnings', s_files_patched',
                       s_patched_files', "ok")
                = KeyStep(Locals(s_fs, s_warnings, s_files_patched,
                                 s_patched_files, "ok"),
                          CurRel, s_map[CurRel], s_is64, s_steam, first)
       /\ (s_pc = "deploy" /\ s_d' = s_d + 1 /\ s_warnings' = s_warnings) =>
            s_fs' = DeployAll(s_fs, SubSeq(s_patched_files, 1, s_d + 1), s_d)
      ]_vars

\* the PatchSets of a table
SetsOfTable(table) ==
    UNION {{table[key][k] : k \in 1..Len(table[key])} : key \in DOMAIN table}

\* C23: every PatchSet of a table returned by a successful parse has at
\* least one alternative, for an entry that is a single tuple and for an
\* entry that is a bracketed list of tuples
C23_AlternativesNonEmpty ==
    (p_pc = "done" /\ p_res.kind = "ok") =>
        \A set \in SetsOfTable(p_res.map32) \cup SetsOfTable(p_res.map64) :
            set.patterns /= <<>>

\* what the code does: the entry [[], 'AA'] parses into a PatchSet without
\* alternatives whose default replacement is AA; every PatchSet parsed from
\* a table written out has the alternatives written
C23_EmptyListGivesNoAlternatives ==
    /\ (p_pc = "done" /\ p_given.s32.kind = "raw"
           /\ p_given.s32.class = "empty_alternatives")
       => parse_dict(p_dicts[1]) =
             ParseOk([k \in {<<"a">>} |->
                        <<[patterns |-> <<>>,
                           default_replacement |-> SomeStr(Str_AA)]>>])
    /\ (p_pc = "done" /\ p_res.kind = "ok" /\ p_given.s32.kind = "table")
       => \A set \in SetsOfTable(p_res.map32) : set.patterns /= <<>>

\* the remainder of a key after its leading bin/
AfterBin(rel) == SubSeq(rel, Len(Str_bin) + 1, Len(rel))

\* the path C24 gives a key: bin/win64/ and the remainder after the leading
\* bin/ on a 64-bit install for a key that starts with bin/, has no /win64/
\* and ends in .dll; the key itself otherwise
RewrittenKey(rel, is64) ==
    IF is64 /\ StartsWith(rel, Str_bin) /\ ~Contains(rel, Str_win64)
       /\ EndsWith(rel, Str_dll)
    THEN Str_bin_win64 \o AfterBin(rel)
    ELSE rel

\* the table of the install
SelectedTable == IF s_is64 THEN s_script.map64 ELSE s_script.map32

\* the iteration of the key in turn has ended, at path eff: the source read
\* and the missing-file diagnostic are of that path, and the file staged is
\* the source patched with the PatchSets stored under the key itself
KeyHandledAt(eff) ==
    /\ \A p \in s_reads' \ s_reads : p[3] = eff
    /\ s_files_patched' = s_files_patched
          => s_warnings' = Append(s_warnings, MissingFile(eff))
    /\ s_files_patched' = s_files_patched + 1
          => \E p \in s_reads' :
                /\ p[3] = eff
                /\ s_fs'[<<"rtx", "patched", eff>>] =
                      File(ApplyPatchsets(s_fs[p].bytes, s_fs[p].bytes,
                                          SelectedTable[CurRel], <<>>).out)

\* C24: a 64-bit install uses the 64-bit table and a 32-bit install the
\* 32-bit table; the path of a key is bin/win64/<remainder after the leading
\* bin/> exactly for a key of a 64-bit install that starts with bin/, has no
\* /win64/ and ends in .dll, and the key itself otherwise; the PatchSets
\* applied are those stored under the original key
C24_KeyRewriting ==
    [][/\ (s_pc = "parse" /\ s_pc' = "keys") =>
              s_map' = IF s_is64 THEN s_script'.map64 ELSE s_script'.map32
       /\ (s_pc = "keys" /\ s_i' = s_i + 1) =>
              KeyHandledAt(RewrittenKey(CurRel, s_is64))]_vars

\* what the code does: the path of a rewritten key is bin/win64/ and the
\* key without every leading bin/, which is the remainder after the leading
\* bin/ unless that remainder starts with bin/ again
C24_RewritingStripsEveryBin ==
    [][/\ (s_pc = "parse" /\ s_pc' = "keys") =>
              s_map' = IF s_is64 THEN s_script'.map64 ELSE s_script'.map32
       /\ (s_pc = "keys" /\ s_i' = s_i + 1) =>
              /\ KeyHandledAt(EffectiveRel(CurRel, s_is64))
              /\ ~StartsWith(AfterBin(CurRel), Str_bin)
                    => EffectiveRel(CurRel, s_is64) = RewrittenKey(CurRel, s_is64)
      ]_vars

\* the applied-patch diagnostic of a write of n bytes at off
AppliedText(off, n) ==
    <<"Applied patch at 0x">> \o UpperHex(off) \o <<", len ">> \o Decimal(n)

\* the write ranges the diagnostics report as applied
AppliedRanges ==
    {rg \in (0..Len(r_orig)) \X (0..Len(r_orig)) :
        \E k \in 1..Len(r_warnings) : r_warnings[k] = AppliedText(rg[1], rg[2])}

\* index i (from 0) lies in a range reported as applied
InAppliedRange(i) ==
    \E rg \in AppliedRanges : rg[1] <= i /\ i < rg[1] + rg[2]

\* C25: after any list of PatchSets the output buffer has the length of the
\* original bytes, and every output byte outside the write ranges of the
\* PatchSets reported as applied is the original byte at its index
C25_OnlyAppliedRangesChange ==
    /\ Len(r_out) = Len(r_orig)
    /\ \A i \in 1..Len(r_out) : ~InAppliedRange(i - 1) => r_out[i] = r_orig[i]

\* C25, the original bytes: no step of the resolver changes them
C25_OriginalNeverModified == [][r_orig' = r_orig]_vars

\* a PatchSet was applied in the middle of a buffer: the bytes of its range
\* changed and bytes outside of it exist
C25_Witness ==
    /\ r_n >= 1 /\ r_last.wrote
    /\ r_out /= r_orig
    /\ \E i \in 1..Len(r_out) : ~InAppliedRange(i - 1)
    /\ \E i \in 1..Len(r_out) : InAppliedRange(i - 1) /\ r_out[i] /= r_orig[i]

\* the iteration just made followed a write: the output buffer it met was
\* no longer the original
AfterEarlierWrite == r_n >= 2 /\ r_before /= r_orig

\* C26: every PatchSet is matched against the original bytes: its winner,
\* match position, write offset and diagnostic are those it has as the only
\* PatchSet of the file, whatever earlier PatchSets wrote; the bytes of a
\* PatchSet applied later are the final content of its whole range, also
\* where the range overlaps an earlier one
C26_MatchedAgainstOriginal ==
    r_n >= 1 =>
        /\ r_last.status = ResolveSet(r_orig, r_orig, r_set).status
        /\ r_last.chosen = ResolveSet(r_orig, r_orig, r_set).chosen
        /\ r_last.base = ResolveSet(r_orig, r_orig, r_set).base
        /\ r_last.off = ResolveSet(r_orig, r_orig, r_set).off
        /\ r_last.pushed = ResolveSet(r_orig, r_orig, r_set).pushed
        /\ r_last.wrote =>
              \A i \in 1..Len(r_last.repl) :
                  r_out[r_last.off + i] = r_last.repl[i]

\* two PatchSets were applied to AA CC CC: DD DD at offset 1, then EE at
\* offset 1, where the first write had replaced the original CC
C26_Witness ==
    /\ AfterEarlierWrite
    /\ r_orig = <<170, 204, 204>>
    /\ r_warnings = <<AppliedText(1, 2), AppliedText(1, 1)>>
    /\ r_before = <<170, 221, 221>>
    /\ r_out = <<170, 238, 221>>

\* a signature CC met the buffer after both CC were overwritten: it is
\* still ambiguous, as in the original bytes
C26_AmbiguousInOriginal ==
    /\ AfterEarlierWrite
    /\ r_before = <<170, 221, 221>>
    /\ Len(r_last.pushed) = 1
    /\ StartsWith(r_last.pushed[1], <<"Ambiguous or conflicting pattern(s): ">>)

\* the number of units of a mask
UnitsOf(mask) == Len(mask) \div 2

\* the number of ?? tokens at the end of a mask
TrailingWild(mask) ==
    Min({UnitsOf(mask)} \cup
        {j \in 0..(UnitsOf(mask) - 1) : mask[Len(mask) - 2 * j] /= "?"})

\* C27: a position returned for a mask of n units leaves room for the whole
\* mask: P + n <= len(buffer), so that every ?? token, a trailing one too,
\* stands for a byte of the buffer
C27_MaskInsideBuffer ==
    (m_pc = "searched" /\ WellFormedMask(m_mask) /\ m_res.kind = "Some")
    => m_res.pos + UnitsOf(m_mask) <= Len(m_data)

\* what the code does: the mask without the ?? tokens at its end lies
\* inside the buffer
C27_MaskInsideButTrailingWild ==
    (m_pc = "searched" /\ WellFormedMask(m_mask) /\ m_res.kind = "Some")
    => m_res.pos + UnitsOf(m_mask) - TrailingWild(m_mask) <= Len(m_data)

\* AA?? is found at the last byte of a buffer
C27_TrailingWildPastEnd ==
    /\ m_pc = "searched" /\ m_mask = <<"A", "A", "?", "?">>
    /\ m_res.kind = "Some" /\ m_res.pos = Len(m_data) - 1

\* no live file has other bytes than the install had
LiveUntouched ==
    \A rel \in Rels : s_fs[<<"rtx", "", rel>>] \in {Absent, File(LiveBytes)}

\* the deploy loop has not been entered
BeforeDeploy == s_pc \in {"fetch", "parse", "keys", "failed", "panic"}

\* C28: deployment starts only after every key was processed: during the
\* loop, and when the session has aborted in the fetch, the parse or the
\* loop, no live file has been overwritten, whatever was staged before
C28_NoDeployBeforeAllKeys ==
    /\ BeforeDeploy => LiveUntouched
    /\ s_pc = "deploy" => s_i = Len(s_keys)

\* the session aborted on its second key with the first key staged: the
\* live file of the first key is still the one of the install
C28_Witness ==
    /\ s_pc = "failed"
    /\ s_i = 1 /\ Len(s_keys) = 2
    /\ s_files_patched = 1
    /\ s_fs[<<"rtx", "patched", EffectiveRel(s_keys[1], s_is64)>>].present
    /\ s_fs[<<"rtx", "", EffectiveRel(s_keys[1], s_is64)>>] = File(LiveBytes)
    /\ s_fs[<<"rtx", "patched", EffectiveRel(s_keys[1], s_is64)>>]
          /= File(LiveBytes)

\* the number of "Patched: " lines of the report
PatchedLines ==
    Cardinality({k \in 1..Len(s_report) : StartsWith(s_report[k], <<"Patched: ">>)})

\* the number of missing-file diagnostics
MissingCount ==
    Cardinality({k \in 1..Len(s_warnings) :
                    StartsWith(s_warnings[k], <<"Missing file [">>)})

\* C29: on successful return files_patched is the number of paths recorded
\* as patched, which is the number of "Patched:" lines of the report and of
\* copies attempted, and files_patched plus the number of missing-file
\* diagnostics is the number of keys of the table
C29_CountsAgree ==
    s_pc = "done" =>
        /\ s_files_patched = Len(s_patched_files)
        /\ s_d = Len(s_patched_files)
        /\ s_report /= <<>> => PatchedLines = s_files_patched
        /\ s_files_patched + MissingCount = Len(s_keys)

\* what the code does: the paths recorded, the report lines and the copies
\* agree with one another and count the files patched from the vanilla
\* root only; each key is either counted or reported missing
C29_CountsWithoutSearch ==
    s_pc = "done" =>
        /\ s_d = Len(s_patched_files)
        /\ s_report /= <<>> => PatchedLines = Len(s_patched_files)
        /\ s_files_patched + MissingCount = Len(s_keys)
        /\ s_files_patched >= Len(s_patched_files)
        /\ s_files_patched > Len(s_patched_files)
              => \E p \in s_reads : p[1] = "rtx" /\ p[2] \in SubDirs

\* the table {'a': [[('AA', 0), 'EE']]}
ZeroOffsetTable ==
    [k \in {<<"a">>} |->
        <<[patterns |-> <<Pat(Str_AA, 0, NoStr)>>,
           default_replacement |-> SomeStr(Str_EE)]>>]

\* C30: a tuple whose second field is no base-10 signed integer (0x10, 1.5,
\* '4') does not fail the parse: it is accepted with offset 0, and the
\* table is the one parsed from the same text with the offset 0 written
C30_BadOffsetIsZero ==
    (p_pc = "done" /\ p_given.s32.kind = "raw"
        /\ p_given.s32.class = "bad_offset")
    => /\ parse_dict(p_dicts[1]) = ParseOk(ZeroOffsetTable)
       /\ parse_dict(p_dicts[1]) = parse_dict(Raw_zero_offset)
       /\ p_given.s64.kind /= "raw" => p_res.kind = "ok"

\* the script with the offset 1.5 is parsed: its one pattern has offset 0
C30_Witness ==
    /\ p_pc = "done" /\ p_given.s32.kind = "raw"
    /\ p_given.s32.raw = Raw_float_offset
    /\ p_res.kind = "ok"
    /\ p_res.map32[<<"a">>][1].patterns[1].offset = 0

====
